---- MODULE Spec2Model ----
(***************************************************************************)
(* A model of @one710/recollect: the MemoryLayer compaction engine, the    *)
(* in-memory storage adapter, the token accountant, the ingestion helpers  *)
(* of the AI SDK middleware and the prompt-view tool-call reconciliation.  *)
(*                                                                         *)
(* Strings are sequences of words; the words "\n" and " " are whitespace.  *)
(* The injected token counter (option countTokens) counts the words of a   *)
(* text that are not whitespace.  A value that is null in the program is   *)
(* the empty sequence (message lists) or Null (numbers, strings).          *)
(***************************************************************************)
EXTENDS Integers, Sequences, FiniteSets, TLC

VARIABLES
    cfg,        \* the MemoryLayer's options after the constructor's clamps
    mw,         \* the middleware's options and its two sets of run keys seen
    sessions,   \* InMemoryStorageAdapter.sessions: session id -> message log
    stats,      \* InMemoryStorageAdapter.stats: session id -> SessionStats
    events,     \* InMemoryStorageAdapter.events: session id -> event log
    call,       \* the API call in flight or last completed, with its position
    peer,       \* the same for a second caller, working on another session
    appendLog,  \* every message handed to the adapter's appendMessage, in order
    tx,         \* the transaction open on the SQLite adapter's connection
    eventRows,  \* the rows of the SQLite adapter's session_events table, by id
    ncalls,     \* number of API calls issued so far
    arg,        \* input of the pure function under check
    ret         \* its result

vars == <<cfg, mw, sessions, stats, events, call, peer, appendLog, tx, eventRows, ncalls, arg, ret>>

----------------------------------------------------------------------------
(* Bounds *)

MaxCalls == 2

MaxExisting == 2

MaxIncoming == 3

MaxView == 3

Null == -1

SessionIds == {"s1"}

----------------------------------------------------------------------------
(* Generic sequence helpers *)

Min(a, b) == IF a < b THEN a ELSE b

Max(a, b) == IF a > b THEN a ELSE b

\* Array.prototype.slice(from, to) with 0-based, end-exclusive indices.
Slice(s, from, to) ==
    LET f == Min(Max(from, 0), Len(s))
        t == Min(Max(to, 0), Len(s))
    IN  IF t <= f THEN <<>> ELSE SubSeq(s, f + 1, t)

SliceFrom(s, from) == Slice(s, from, Len(s))

RECURSIVE SumSeq(_)
SumSeq(s) == IF s = <<>> THEN 0 ELSE Head(s) + SumSeq(Tail(s))

RECURSIVE Concat(_)
Concat(ss) == IF ss = <<>> THEN <<>> ELSE Head(ss) \o Concat(Tail(ss))

SeqsUpTo(S, n) == UNION {[1..k -> S] : k \in 0..n}

IsPrefixOf(p, s) == Len(p) <= Len(s) /\ SubSeq(s, 1, Len(p)) = p

IsSuffixOf(p, s) == Len(p) <= Len(s) /\ SubSeq(s, Len(s) - Len(p) + 1, Len(s)) = p

----------------------------------------------------------------------------
(* Strings *)

IsSpace(w) == w \in {"\n", " "}

\* String.prototype.trim
RECURSIVE TrimLeft(_)
TrimLeft(t) ==
    IF t = <<>> THEN <<>>
    ELSE IF IsSpace(Head(t)) THEN TrimLeft(Tail(t)) ELSE t

RECURSIVE TrimRight(_)
TrimRight(t) ==
    IF t = <<>> THEN <<>>
    ELSE IF IsSpace(t[Len(t)]) THEN TrimRight(SubSeq(t, 1, Len(t) - 1)) ELSE t

Trim(t) == TrimRight(TrimLeft(t))

\* The injected counter: words that are not whitespace.
counter(t) == Len(SelectSeq(t, LAMBDA w : ~IsSpace(w)))

SUMMARY_MESSAGE_PREFIX == <<"Conversation", "checkpoint", "summary">>

----------------------------------------------------------------------------
(* Messages and content parts (types.ts) *)

\* The input of a tool-call part: a structured object (its entries, <<key, value>>
\* pairs in insertion order), a string holding the JSON text of such an object, or
\* any other string.
NoInput == [kind |-> "undefined", entries |-> <<>>]

ObjectInput(entries) == [kind |-> "object", entries |-> entries]

JsonStringInput(entries) == [kind |-> "json-string", entries |-> entries]

OtherStringInput == [kind |-> "string", entries |-> <<>>]

TextPart(t) ==
    [type |-> "text", text |-> t, toolCallId |-> "", toolName |-> "",
     output |-> <<>>, input |-> NoInput]

ReasoningPart(t) ==
    [type |-> "reasoning", text |-> t, toolCallId |-> "", toolName |-> "",
     output |-> <<>>, input |-> NoInput]

FilePart ==
    [type |-> "file", text |-> <<>>, toolCallId |-> "", toolName |-> "",
     output |-> <<>>, input |-> NoInput]

ToolCallPart(id, name, input) ==
    [type |-> "tool-call", text |-> <<>>, toolCallId |-> id, toolName |-> name,
     output |-> <<>>, input |-> input]

ToolResultPart(id, name, out) ==
    [type |-> "tool-result", text |-> <<>>, toolCallId |-> id, toolName |-> name,
     output |-> out, input |-> NoInput]

\* An entry of an assistant message's legacy toolCalls list.
LegacyToolCall(id, name) == [toolCallId |-> id, toolName |-> name, args |-> <<"{}">>]

\* A message whose content is a plain string.
StringMessage(role, t) ==
    [role |-> role, isString |-> TRUE, text |-> t, parts |-> <<>>, toolCalls |-> <<>>]

\* A message whose content is an array of parts.
PartsMessage(role, ps) ==
    [role |-> role, isString |-> FALSE, text |-> <<>>, parts |-> ps, toolCalls |-> <<>>]

\* An assistant message with string content and a legacy toolCalls list.
LegacyCallMessage(t, calls) ==
    [role |-> "assistant", isString |-> TRUE, text |-> t, parts |-> <<>>, toolCalls |-> calls]

----------------------------------------------------------------------------
(* Token accountant *)

partTokens(role, part) ==
    (IF part.type = "text" THEN counter(part.text)
     ELSE IF part.type = "file" THEN 85
     ELSE 0)
    + (IF role = "tool" /\ part.type = "tool-result"
       THEN counter(part.output) + 10 ELSE 0)

toolCallTokens(c) == counter(<<c.toolName>>) + counter(c.args) + 10

oneMessageTokens(m) ==
    4
    + (IF m.isString THEN counter(m.text)
       ELSE SumSeq([i \in 1..Len(m.parts) |-> partTokens(m.role, m.parts[i])]))
    + (IF m.role = "assistant"
       THEN SumSeq([i \in 1..Len(m.toolCalls) |-> toolCallTokens(m.toolCalls[i])])
       ELSE 0)

countMessagesTokens(messages) ==
    SumSeq([i \in 1..Len(messages) |-> oneMessageTokens(messages[i])])

----------------------------------------------------------------------------
(* InMemoryStorageAdapter.  A value M == [sessions, stats, events] is the  *)
(* adapter's content; each operation returns the content after it.  The   *)
(* adapter's running event id and the creation time are left out.         *)

DefaultStats ==
    [compactionCount |-> 0,
     lastCompactionTokensBefore |-> Null,
     lastCompactionTokensAfter |-> Null,
     lastCompactionReason |-> "null",
     canonicalContext |-> <<>>]

appendMessage(M, sessionId, message) ==
    [M EXCEPT !.sessions[sessionId] = Append(@, message)]

listMessages(M, sessionId) == M.sessions[sessionId]

replaceMessages(M, sessionId, messages) ==
    [M EXCEPT !.sessions[sessionId] = messages]

storage_clearSession(M, sessionId) ==
    [M EXCEPT !.sessions[sessionId] = <<>>]

storage_appendEvent(M, event) ==
    [M EXCEPT !.events[event.sessionId] = Append(@, event)]

\* sessionEvents.slice(-limit)
listEvents(M, sessionId, limit) ==
    LET sessionEvents == M.events[sessionId]
    IN  IF limit = 0 THEN sessionEvents
        ELSE SliceFrom(sessionEvents, Len(sessionEvents) - limit)

getStats(M, sessionId) == M.stats[sessionId]

\* patch holds the fields given; a field left out keeps its value.
updateStats(M, sessionId, patch) ==
    LET current == getStats(M, sessionId)
    IN  [M EXCEPT !.stats[sessionId] =
            [f \in DOMAIN current |->
                IF f \in DOMAIN patch THEN patch[f] ELSE current[f]]]

----------------------------------------------------------------------------
(* MemoryLayer: helpers *)

\* The constructor: defaults and clamps.  An option left out is Null; the
\* threshold is given in percent.
NewMemoryLayer(options) ==
    [maxTokens |-> options.maxTokens,
     thresholdPct |-> IF options.thresholdPct = Null THEN 90 ELSE options.thresholdPct,
     targetTokensAfterCompaction |->
        IF options.targetTokensAfterCompaction = Null
        THEN Max(1, (options.maxTokens * 65) \div 100)
        ELSE options.targetTokensAfterCompaction,
     keepRecentUserTurns |->
        Max(1, IF options.keepRecentUserTurns = Null THEN 4
               ELSE options.keepRecentUserTurns),
     keepRecentMessagesMin |->
        Max(1, IF options.keepRecentMessagesMin = Null THEN 8
               ELSE options.keepRecentMessagesMin),
     maxCompactionPasses |->
        Max(1, IF options.maxCompactionPasses = Null THEN 3
               ELSE options.maxCompactionPasses),
     minimumMessagesToCompact |->
        Max(2, IF options.minimumMessagesToCompact = Null THEN 6
               ELSE options.minimumMessagesToCompact)]

compactionTriggerTokens == Max(1, (cfg.maxTokens * cfg.thresholdPct) \div 100)

messageTokens(messages) == countMessagesTokens(messages)

isPinnedInstructionRole(message) == message.role \in {"system", "developer"}

isSummaryMessage(message) ==
    /\ message.role = "system"
    /\ message.isString
    /\ IsPrefixOf(SUMMARY_MESSAGE_PREFIX, message.text)

extractSummaryBody(content) ==
    LET prefix == SUMMARY_MESSAGE_PREFIX \o <<"\n">>
    IN  IF IsPrefixOf(prefix, content)
        THEN Trim(SliceFrom(content, Len(prefix)))
        ELSE Trim(content)

\* The while loops of leadingCanonicalContext and planCompaction: the first
\* index at or after idx (0-based) that holds no instruction message.
RECURSIVE skipPinned(_, _)
skipPinned(messages, idx) ==
    IF idx < Len(messages) /\ isPinnedInstructionRole(messages[idx + 1])
    THEN skipPinned(messages, idx + 1)
    ELSE idx

leadingCanonicalContext(messages) == Slice(messages, 0, skipPinned(messages, 0))

appendEvent(M, event) == storage_appendEvent(M, event)

\* The snapshot is taken whenever the history has a pinned head, also over
\* an earlier snapshot.
ensureCanonicalContextSnapshotAlways(M, sessionId, history) ==
    LET canonical == leadingCanonicalContext(history)
    IN  IF Len(canonical) = 0 THEN M
        ELSE appendEvent(
                updateStats(M, sessionId, [canonicalContext |-> canonical]),
                [sessionId |-> sessionId,
                 type |-> "canonical_context_captured",
                 payload |-> [messageCount |-> Len(canonical)]])

ensureCanonicalContextSnapshot(M, sessionId, history) ==
    LET st == getStats(M, sessionId)
        canonical == leadingCanonicalContext(history)
    IN  IF Len(st.canonicalContext) > 0 THEN M
        ELSE IF Len(canonical) = 0 THEN M
        ELSE appendEvent(
                updateStats(M, sessionId, [canonicalContext |-> canonical]),
                [sessionId |-> sessionId,
                 type |-> "canonical_context_captured",
                 payload |-> [messageCount |-> Len(canonical)]])

----------------------------------------------------------------------------
(* MemoryLayer.planCompaction *)

NoPlan ==
    [ok |-> FALSE, head |-> <<>>, summarizeSlice |-> <<>>, tail |-> <<>>,
     existingSummary |-> <<>>, tailStart |-> 0, pinnedHeadEnd |-> 0,
     userRule |-> FALSE]

\* 0-based indices, ascending, of the user messages at or after from.
userBoundariesFrom(messages, from) ==
    SelectSeq([i \in 1..Len(messages) |-> i - 1],
              LAMBDA i : i >= from /\ messages[i + 1].role = "user")

\* summaries.join("\n\n")
RECURSIVE joinSummaries(_)
joinSummaries(texts) ==
    IF texts = <<>> THEN <<>>
    ELSE IF Len(texts) = 1 THEN texts[1]
    ELSE texts[1] \o <<"\n", "\n">> \o joinSummaries(Tail(texts))

useUserTurnRule(userBoundaries) == Len(userBoundaries) > cfg.keepRecentUserTurns

fallbackTailStart(messages, pinnedHeadEnd) ==
    Max(pinnedHeadEnd + 1, Len(messages) - cfg.keepRecentMessagesMin)

\* The plan without the test of minimumMessagesToCompact.
planCompactionNoMinimum(messages, canonicalContext) ==
    LET fallbackHead == leadingCanonicalContext(messages)
        head == IF Len(canonicalContext) > 0 THEN canonicalContext ELSE fallbackHead
        pinnedHeadEnd == skipPinned(messages, Len(fallbackHead))
        userBoundaries == userBoundariesFrom(messages, pinnedHeadEnd)
        userRule == useUserTurnRule(userBoundaries)
        tailStart ==
            IF userRule
            THEN userBoundaries[Len(userBoundaries) - cfg.keepRecentUserTurns + 1]
            ELSE fallbackTailStart(messages, pinnedHeadEnd)
        summarizeSlice == Slice(messages, pinnedHeadEnd, tailStart)
        tail == SliceFrom(messages, tailStart)
        summaryMessages == SelectSeq(summarizeSlice, isSummaryMessage)
        bodies == [i \in 1..Len(summaryMessages) |->
                      extractSummaryBody(summaryMessages[i].text)]
        summaries == SelectSeq(bodies, LAMBDA text : Len(text) > 0)
    IN  IF tailStart <= pinnedHeadEnd THEN NoPlan
        ELSE [ok |-> TRUE, head |-> head, summarizeSlice |-> summarizeSlice,
              tail |-> tail, existingSummary |-> joinSummaries(summaries),
              tailStart |-> tailStart, pinnedHeadEnd |-> pinnedHeadEnd,
              userRule |-> userRule]

\* existingSummary is <<>> when the program's is null: a joined text is never
\* empty, because empty bodies are filtered out.  tailStart, pinnedHeadEnd and
\* userRule are the plan's local values, kept for the record.
planCompaction(messages, canonicalContext) ==
    IF Len(messages) < cfg.minimumMessagesToCompact THEN NoPlan
    ELSE
    LET fallbackHead == leadingCanonicalContext(messages)
        head == IF Len(canonicalContext) > 0 THEN canonicalContext ELSE fallbackHead
        pinnedHeadEnd == skipPinned(messages, Len(fallbackHead))
        userBoundaries == userBoundariesFrom(messages, pinnedHeadEnd)
        userRule == useUserTurnRule(userBoundaries)
        tailStart ==
            IF userRule
            THEN userBoundaries[Len(userBoundaries) - cfg.keepRecentUserTurns + 1]
            ELSE fallbackTailStart(messages, pinnedHeadEnd)
        summarizeSlice == Slice(messages, pinnedHeadEnd, tailStart)
        tail == SliceFrom(messages, tailStart)
        summaryMessages == SelectSeq(summarizeSlice, isSummaryMessage)
        bodies == [i \in 1..Len(summaryMessages) |->
                      extractSummaryBody(summaryMessages[i].text)]
        summaries == SelectSeq(bodies, LAMBDA text : Len(text) > 0)
    IN  IF tailStart <= pinnedHeadEnd THEN NoPlan
        ELSE [ok |-> TRUE, head |-> head, summarizeSlice |-> summarizeSlice,
              tail |-> tail, existingSummary |-> joinSummaries(summaries),
              tailStart |-> tailStart, pinnedHeadEnd |-> pinnedHeadEnd,
              userRule |-> userRule]

----------------------------------------------------------------------------
(* MemoryLayer.compactSession.  A call runs in steps: from its start, or   *)
(* from the return of the summarizer, to the next call of the summarizer   *)
(* or to its end.  A step takes the adapter's content M and the call's     *)
(* frame K and gives both after it.  K.pc is "summarizing" while the call  *)
(* awaits the summarizer, "returned" or "threw" when the memory operation  *)
(* has ended, and "idle" once the whole API call has ended.                *)

\* The result of a model call: the messages of its steps, the messages of its
\* response, its content parts and its finish reason.
NoResult ==
    [steps |-> <<>>, responseMessages |-> <<>>, content |-> <<>>,
     finishReason |-> "stop"]

NoPass ==
    [outcome |-> "none", history |-> <<>>, plan |-> NoPlan, summary |-> <<>>,
     beforeTokens |-> 0, afterTokens |-> 0, nextHistory |-> <<>>,
     storedBefore |-> <<>>, statsBefore |-> DefaultStats, pass |-> 0]

NoOptions == [mode |-> "none", reason |-> "none", force |-> FALSE]

IdleCall ==
    [pc |-> "idle", op |-> "none", sessionId |-> "none", options |-> NoOptions,
     history |-> <<>>, statsSnap |-> DefaultStats, passes |-> 0, plan |-> NoPlan,
     beforeTokens |-> 0, summarizerCalls |-> 0, lastPass |-> NoPass,
     log0 |-> <<>>, stats0 |-> DefaultStats, ev0 |-> 0, messages |-> <<>>,
     cont |-> "none", threw |-> FALSE,
     runKey |-> [sessionId |-> "none", runId |-> "none"], processed |-> FALSE,
     resend |-> FALSE, appended |-> <<>>, result |-> <<>>,
     retry |-> FALSE, generated |-> NoResult, output |-> NoResult,
     errorsReported |-> 0, given |-> [role |-> "none", isString |-> FALSE]]

\* The skip event with the default mode and reason, not the requested ones.
skippedEventDefaultMode(K, cause, extra) ==
    [sessionId |-> K.sessionId,
     type |-> "compaction_skipped",
     payload |-> [mode |-> "manual", reason |-> "compaction_requested",
                  cause |-> cause, detail |-> extra]]

skippedEvent(K, cause, extra) ==
    [sessionId |-> K.sessionId,
     type |-> "compaction_skipped",
     payload |-> [mode |-> K.options.mode, reason |-> K.options.reason,
                  cause |-> cause, detail |-> extra]]

\* The loop test with <= for <: one pass more than allowed.
morePassesAllowedInclusive(passes) == passes <= cfg.maxCompactionPasses

\* The test of the while loop.
morePassesAllowed(passes) == passes < cfg.maxCompactionPasses

\* The loop without the return of a non-forced call below the trigger.
compactLoopNoTriggerTest(M, K) ==
    LET beforeTokens == messageTokens(K.history)
        plan == planCompaction(K.history, K.statsSnap.canonicalContext)
    IN  IF ~morePassesAllowed(K.passes)
        THEN [M |-> M, K |-> [K EXCEPT !.pc = "returned"]]
        ELSE IF ~plan.ok \/ Len(plan.summarizeSlice) = 0
        THEN [M |-> appendEvent(M, skippedEvent(K, "no_compaction_plan",
                                               [pass |-> K.passes + 1])),
              K |-> [K EXCEPT !.pc = "returned"]]
        ELSE [M |-> M,
              K |-> [K EXCEPT !.pc = "summarizing", !.plan = plan,
                              !.beforeTokens = beforeTokens,
                              !.summarizerCalls = @ + 1]]

\* The loop returning without an event when there is nothing to summarize.
compactLoopSilentWithoutPlan(M, K) ==
    LET beforeTokens == messageTokens(K.history)
        plan == planCompaction(K.history, K.statsSnap.canonicalContext)
    IN  IF ~morePassesAllowed(K.passes)
        THEN [M |-> M, K |-> [K EXCEPT !.pc = "returned"]]
        ELSE IF ~K.options.force /\ beforeTokens < compactionTriggerTokens
        THEN [M |-> M, K |-> [K EXCEPT !.pc = "returned"]]
        ELSE IF ~plan.ok \/ Len(plan.summarizeSlice) = 0
        THEN [M |-> M, K |-> [K EXCEPT !.pc = "returned"]]
        ELSE [M |-> M,
              K |-> [K EXCEPT !.pc = "summarizing", !.plan = plan,
                              !.beforeTokens = beforeTokens,
                              !.summarizerCalls = @ + 1]]

\* The loop from its head to the call of the summarizer (or to a return).
compactLoop(M, K) ==
    LET beforeTokens == messageTokens(K.history)
        plan == planCompaction(K.history, K.statsSnap.canonicalContext)
    IN  IF ~morePassesAllowed(K.passes)
        THEN [M |-> M, K |-> [K EXCEPT !.pc = "returned"]]
        ELSE IF ~K.options.force /\ beforeTokens < compactionTriggerTokens
        THEN [M |-> M, K |-> [K EXCEPT !.pc = "returned"]]
        ELSE IF ~plan.ok \/ Len(plan.summarizeSlice) = 0
        THEN [M |-> appendEvent(M, skippedEvent(K, "no_compaction_plan",
                                               [pass |-> K.passes + 1])),
              K |-> [K EXCEPT !.pc = "returned"]]
        ELSE [M |-> M,
              K |-> [K EXCEPT !.pc = "summarizing", !.plan = plan,
                              !.beforeTokens = beforeTokens,
                              !.summarizerCalls = @ + 1]]

\* From the start of compactSession to the loop.
compactSessionBegin(M, K, initialHistory, options) ==
    LET M1 == ensureCanonicalContextSnapshot(M, K.sessionId, initialHistory)
        st == getStats(M1, K.sessionId)
        triggerTokens == compactionTriggerTokens
        initialTokens == messageTokens(initialHistory)
        K1 == [K EXCEPT !.options = options, !.history = initialHistory,
                        !.statsSnap = st, !.passes = 0]
    IN  IF ~options.force /\ initialTokens < triggerTokens
        THEN [M |-> appendEvent(M1, skippedEvent(K1, "below_trigger",
                        [initialTokens |-> initialTokens,
                         triggerTokens |-> triggerTokens])),
              K |-> [K1 EXCEPT !.pc = "returned"]]
        ELSE compactLoop(
                appendEvent(M1,
                    [sessionId |-> K.sessionId,
                     type |-> "compaction_started",
                     payload |-> [mode |-> options.mode, reason |-> options.reason,
                                  initialTokens |-> initialTokens,
                                  triggerTokens |-> triggerTokens]]),
                K1)

\* The checkpoint with the summary as the summarizer gave it.
checkpointMessageUntrimmed(summary) ==
    StringMessage("system", SUMMARY_MESSAGE_PREFIX \o <<"\n">> \o summary)

checkpointMessage(summary) ==
    StringMessage("system", SUMMARY_MESSAGE_PREFIX \o <<"\n">> \o Trim(summary))

\* The rebuilt history without the pinned head.
rebuildHistoryNoHead(plan, summaryMessage) == <<summaryMessage>> \o plan.tail

\* nextHistory with the tail put before the checkpoint and the head.
rebuildHistoryTailFirst(plan, summaryMessage) ==
    plan.tail \o <<summaryMessage>> \o plan.head

rebuildHistory(plan, summaryMessage) == plan.head \o <<summaryMessage>> \o plan.tail

\* The abort test with > for >=: a pass that saves nothing commits.
noTokenReductionStrict(afterTokens, beforeTokens) == afterTokens > beforeTokens

\* The abort test of a pass.
noTokenReduction(afterTokens, beforeTokens) == afterTokens >= beforeTokens

\* The count restarts with each call: the passes of earlier calls are forgotten.
compactionCountOfCall(statsAtStart, passes) == passes

\* The compactionCount a committed pass writes.
compactionCountAfter(statsAtStart, passes) == statsAtStart.compactionCount + passes

\* From the summarizer's return to its next call (or to a return).
compactAfterSummary(M, K, summary) ==
    LET plan == K.plan
        beforeTokens == K.beforeTokens
        summaryMessage == checkpointMessage(summary)
        nextHistory == rebuildHistory(plan, summaryMessage)
        afterTokens == messageTokens(nextHistory)
        passes == K.passes + 1
        pass == [outcome |-> "applied", history |-> K.history, plan |-> plan,
                 summary |-> summary, beforeTokens |-> beforeTokens,
                 afterTokens |-> afterTokens, nextHistory |-> nextHistory,
                 storedBefore |-> listMessages(M, K.sessionId),
                 statsBefore |-> getStats(M, K.sessionId), pass |-> passes]
        diagnostic == [mode |-> K.options.mode, reason |-> K.options.reason,
                       pass |-> passes, beforeTokens |-> beforeTokens,
                       afterTokens |-> afterTokens,
                       triggerTokens |-> compactionTriggerTokens,
                       targetTokens |-> cfg.targetTokensAfterCompaction,
                       summarizedMessages |-> Len(plan.summarizeSlice),
                       keptMessages |-> Len(plan.head) + Len(plan.tail)]
        M1 == replaceMessages(M, K.sessionId, nextHistory)
        M2 == updateStats(M1, K.sessionId,
                 [compactionCount |-> compactionCountAfter(K.statsSnap, passes),
                  lastCompactionTokensBefore |-> beforeTokens,
                  lastCompactionTokensAfter |-> afterTokens,
                  lastCompactionReason |-> K.options.reason])
        M3 == appendEvent(M2, [sessionId |-> K.sessionId,
                               type |-> "compaction_applied",
                               payload |-> diagnostic])
        K3 == [K EXCEPT !.history = nextHistory, !.passes = passes, !.lastPass = pass]
    IN  IF noTokenReduction(afterTokens, beforeTokens)
        THEN [M |-> appendEvent(M, skippedEvent(K, "no_token_reduction",
                        [pass |-> K.passes + 1, beforeTokens |-> beforeTokens,
                         afterTokens |-> afterTokens])),
              K |-> [K EXCEPT !.pc = "returned",
                              !.lastPass = [pass EXCEPT !.outcome = "no_token_reduction"]]]
        ELSE IF afterTokens <= cfg.targetTokensAfterCompaction
        THEN [M |-> M3, K |-> [K3 EXCEPT !.pc = "returned"]]
        ELSE compactLoop(M3, K3)

\* The summarizer's error is swallowed and compactSession returns.
compactAfterFailureSwallowed(M, K) ==
    [M |-> M,
     K |-> [K EXCEPT !.pc = "returned",
                     !.lastPass = [NoPass EXCEPT !.outcome = "failed",
                                                 !.history = K.history,
                                                 !.plan = K.plan,
                                                 !.storedBefore = listMessages(M, K.sessionId),
                                                 !.statsBefore = getStats(M, K.sessionId),
                                                 !.pass = K.passes + 1]]]

\* The summarizer rejects: the error leaves compactSession.
compactAfterFailure(M, K) ==
    [M |-> M,
     K |-> [K EXCEPT !.pc = "threw",
                     !.lastPass = [NoPass EXCEPT !.outcome = "failed",
                                                 !.history = K.history,
                                                 !.plan = K.plan,
                                                 !.storedBefore = listMessages(M, K.sessionId),
                                                 !.statsBefore = getStats(M, K.sessionId),
                                                 !.pass = K.passes + 1]]]

----------------------------------------------------------------------------
(* MemoryLayer: the public operations, each to its first suspension *)

RECURSIVE appendAll(_, _, _)
appendAll(M, sessionId, messages) ==
    IF messages = <<>> THEN M
    ELSE appendAll(appendMessage(M, sessionId, Head(messages)), sessionId, Tail(messages))

\* The trigger test with <= for <: a log exactly at the trigger is left alone.
shouldCompactAboveTrigger(tokenCount) == ~(tokenCount <= compactionTriggerTokens)

shouldCompactAfterAppend(tokenCount) == ~(tokenCount < compactionTriggerTokens)

appendAndMaybeCompact(M, K, messages, eventType, payload) ==
    LET M1 == appendAll(M, K.sessionId, messages)
        M2 == appendEvent(M1, [sessionId |-> K.sessionId, type |-> eventType,
                               payload |-> payload])
        history == listMessages(M2, K.sessionId)
        M3 == ensureCanonicalContextSnapshot(M2, K.sessionId, history)
        tokenCount == messageTokens(history)
    IN  IF ~shouldCompactAfterAppend(tokenCount)
        THEN [M |-> M3, K |-> [K EXCEPT !.pc = "returned"]]
        ELSE compactSessionBegin(M3, K, history,
                [mode |-> "ingest",
                 reason |-> IF Len(messages) = 1
                            THEN "threshold_reached_after_add_message"
                            ELSE "threshold_reached_after_add_messages",
                 force |-> FALSE])

addMessages(M, K, messages) ==
    appendAndMaybeCompact(M, K, messages, "messages_appended",
                          [count |-> Len(messages)])

compactIfNeeded(M, K, options) ==
    compactSessionBegin(M, K, listMessages(M, K.sessionId), options)

\* compactNow without force: below the trigger it is skipped.
compactNowIfNeeded(M, K) ==
    compactIfNeeded(M, K, [mode |-> "manual", reason |-> "manual_compact_now",
                           force |-> FALSE])

compactNow(M, K) ==
    compactIfNeeded(M, K, [mode |-> "manual", reason |-> "manual_compact_now",
                           force |-> TRUE])

\* clearSession that also forgets the statistics of the session.
clearSessionAndStats(M, K) ==
    [M |-> appendEvent([storage_clearSession(M, K.sessionId) EXCEPT
                            !.stats[K.sessionId] = DefaultStats],
                       [sessionId |-> K.sessionId, type |-> "session_cleared",
                        payload |-> [none |-> 0]]),
     K |-> [K EXCEPT !.pc = "returned"]]

clearSession(M, K) ==
    [M |-> appendEvent(storage_clearSession(M, K.sessionId),
                       [sessionId |-> K.sessionId, type |-> "session_cleared",
                        payload |-> [none |-> 0]]),
     K |-> [K EXCEPT !.pc = "returned"]]

getMessages(M, sessionId) == listMessages(M, sessionId)

getPromptMessages(M, sessionId) == getMessages(M, sessionId)

\* addMessage's construction of the message; Rejected when it throws.
\* payload is [isString, text, message]; role is "null" for null.
Rejected == [role |-> "rejected", isString |-> TRUE, text |-> <<>>, parts |-> <<>>,
             toolCalls |-> <<>>]

\* A string given with the role tool becomes a text message of that role.
buildMessageToolAsText(role, payload) ==
    IF role = "null"
    THEN IF payload.isString THEN Rejected ELSE payload.message
    ELSE IF ~payload.isString THEN Rejected
    ELSE IF role = "system" THEN StringMessage(role, payload.text)
    ELSE PartsMessage(role, <<TextPart(payload.text)>>)

buildMessage(role, payload) ==
    IF role = "null"
    THEN IF payload.isString THEN Rejected ELSE payload.message
    ELSE IF ~payload.isString THEN Rejected
    ELSE IF role = "system" THEN StringMessage(role, payload.text)
    ELSE IF role = "tool" THEN Rejected
    ELSE PartsMessage(role, <<TextPart(payload.text)>>)

addMessage(M, K, role, payload) ==
    LET message == buildMessage(role, payload)
    IN  IF message = Rejected
        THEN [M |-> M, K |-> [K EXCEPT !.pc = "threw"]]
        ELSE appendAndMaybeCompact(M, K, <<message>>, "message_appended",
                                   [role |-> message.role])

----------------------------------------------------------------------------
(* ai-sdk-utils.ts *)

\* parseJsonObject: the entries of the object the string holds, if it holds one.
parsesToObject(input) == input.kind = "json-string"

isStringInput(input) == input.kind \in {"json-string", "string"}

normalizeToolCallPart(part) ==
    IF part.type # "tool-call" \/ ~isStringInput(part.input) THEN part
    ELSE IF ~parsesToObject(part.input) THEN part
    ELSE [part EXCEPT !.input = ObjectInput(part.input.entries)]

normalizeToolCallInputs(message) ==
    IF message.isString THEN message
    ELSE [message EXCEPT !.parts =
            [i \in 1..Len(message.parts) |-> normalizeToolCallPart(message.parts[i])]]

\* normalizeMessageForMemory gives null for a message to drop.
NullMessage == [role |-> "null", isString |-> TRUE, text |-> <<>>, parts |-> <<>>,
                toolCalls |-> <<>>]

stringToTextParts(message) ==
    IF message.isString /\ message.role \in {"user", "assistant"}
    THEN [message EXCEPT !.isString = FALSE, !.text = <<>>,
                         !.parts = <<TextPart(message.text)>>]
    ELSE message

\* The content with its reasoning parts left in.
withReasoning(parts) == parts

withoutReasoning(parts) == SelectSeq(parts, LAMBDA part : part.type # "reasoning")

normalizeMessageForMemory(message) ==
    LET normalized == stringToTextParts(normalizeToolCallInputs(message))
        filteredContent == withoutReasoning(normalized.parts)
    IN  IF normalized.isString THEN normalized
        ELSE IF Len(filteredContent) = 0 THEN NullMessage
        ELSE [normalized EXCEPT !.parts = filteredContent]

\* Object entries sorted by key (keys are numbers standing for key names).
RECURSIVE sortEntries(_)
sortEntries(entries) ==
    IF entries = <<>> THEN <<>>
    ELSE LET i == CHOOSE k \in 1..Len(entries) :
                    \A j \in 1..Len(entries) :
                        entries[k][1] < entries[j][1]
                        \/ (entries[k][1] = entries[j][1] /\ k <= j)
         IN  <<entries[i]>> \o
             sortEntries(SubSeq(entries, 1, i - 1) \o SubSeq(entries, i + 1, Len(entries)))

\* canonicalizeJson that keeps the keys in the order it finds them.
canonicalizeJsonKeepingOrder(input) == input

canonicalizeJson(input) ==
    IF input.kind = "object" THEN ObjectInput(sortEntries(input.entries)) ELSE input

canonicalizePart(part) ==
    CASE part.type = "text" -> TextPart(part.text)
      [] part.type = "tool-call" ->
            ToolCallPart(part.toolCallId, part.toolName, canonicalizeJson(part.input))
      [] part.type = "tool-result" ->
            ToolResultPart(part.toolCallId, part.toolName, part.output)
      [] part.type = "file" -> FilePart
      [] OTHER -> [part EXCEPT !.input = canonicalizeJson(part.input)]

\* The canonical form holds the role and the content only.
canonicalizeMessageForComparison(message) ==
    LET normalized == normalizeMessageForMemory(message)
    IN  IF normalized = NullMessage THEN NullMessage
        ELSE IF normalized.isString
        THEN StringMessage(normalized.role, normalized.text)
        ELSE PartsMessage(normalized.role,
                [i \in 1..Len(normalized.parts) |-> canonicalizePart(normalized.parts[i])])

\* JSON.stringify of the canonical form: one text per canonical form, so the
\* canonical form stands for it.
fingerprintMessage(message) == canonicalizeMessageForComparison(message)

normalizeMessages(messages) ==
    SelectSeq([i \in 1..Len(messages) |-> normalizeMessageForMemory(messages[i])],
              LAMBDA next : next # NullMessage)

fingerprints(messages) ==
    SelectSeq([i \in 1..Len(messages) |-> fingerprintMessage(messages[i])],
              LAMBDA key : key # NullMessage)

\* Whether the last size keys of existingKeys are the first size keys of promptKeys.
overlapMatches(existingKeys, promptKeys, size) ==
    \A i \in 0..(size - 1) :
        existingKeys[Len(existingKeys) - size + i + 1] = promptKeys[i + 1]

\* The least size that matches, for the greatest.
findSmallestOverlap(existingKeys, promptKeys, size) ==
    LET matching == {k \in 1..size : overlapMatches(existingKeys, promptKeys, k)}
    IN  IF matching = {} THEN 0
        ELSE CHOOSE k \in matching : \A j \in matching : k <= j

\* The loop over size, from maxOverlap down.
RECURSIVE findOverlap(_, _, _)
findOverlap(existingKeys, promptKeys, size) ==
    IF size > 0
    THEN IF overlapMatches(existingKeys, promptKeys, size) THEN size
         ELSE findOverlap(existingKeys, promptKeys, size - 1)
    ELSE 0

\* Every prompt message whose fingerprint is stored anywhere is left out.
findUnseenPromptMessages(existingMessages, promptMessages) ==
    LET existingKeys == fingerprints(normalizeMessages(existingMessages))
    IN  SelectSeq(normalizeMessages(promptMessages),
                  LAMBDA m : ~(\E i \in 1..Len(existingKeys) :
                                  existingKeys[i] = fingerprintMessage(m)))

\* The loop of uniqueWithinBatch; seen is the set of the keys added so far.
RECURSIVE uniqueFrom(_, _)
uniqueFrom(messages, seen) ==
    IF messages = <<>> THEN <<>>
    ELSE LET key == fingerprintMessage(Head(messages))
         IN  IF key = NullMessage \/ key \in seen
             THEN uniqueFrom(Tail(messages), seen)
             ELSE <<Head(messages)>> \o uniqueFrom(Tail(messages), seen \cup {key})

uniqueWithinBatch(messages) == uniqueFrom(normalizeMessages(messages), {})

collectGeneratedMessages(result) ==
    Concat(result.steps) \o result.responseMessages
    \o (IF Len(result.content) > 0
        THEN <<PartsMessage("assistant", result.content)>>
        ELSE <<>>)

\* shouldRunPostCompaction that follows up on tool calls only.
shouldRunPostCompactionOnToolCalls(result, strategy) ==
    \/ strategy = "always"
    \/ result.finishReason = "tool-calls"

shouldRunPostCompaction(result, strategy) ==
    \/ strategy = "always"
    \/ result.finishReason \in {"tool-calls", "length"}

findPromptSuffixToAppend(existingMessages, promptMessages) ==
    LET existing == normalizeMessages(existingMessages)
        prompt == normalizeMessages(promptMessages)
        existingKeys == fingerprints(existing)
        promptKeys == fingerprints(prompt)
        maxOverlap == Min(Len(existingKeys), Len(promptKeys))
    IN  IF Len(prompt) = 0 THEN <<>>
        ELSE SliceFrom(prompt, findOverlap(existingKeys, promptKeys, maxOverlap))

----------------------------------------------------------------------------
(* The prompt view of the MemoryLayer that reconciles tool calls with tool  *)
(* results.  The Map toolCalls is the sequence of its entries in insertion  *)
(* order; an absent toolCallId or toolName is the empty string.             *)

MISSING_RESULT == <<"missing_result">>

hasCall(toolCalls, id) == \E i \in 1..Len(toolCalls) : toolCalls[i].toolCallId = id

registerToolCall(toolCalls, toolCallId, toolName) ==
    IF toolCallId = "" \/ toolName = "" THEN toolCalls
    ELSE IF hasCall(toolCalls, toolCallId)
    THEN [i \in 1..Len(toolCalls) |->
             IF toolCalls[i].toolCallId = toolCallId
             THEN [toolCallId |-> toolCallId, toolName |-> toolName]
             ELSE toolCalls[i]]
    ELSE Append(toolCalls, [toolCallId |-> toolCallId, toolName |-> toolName])

\* reg is [toolCalls, hasResults].
recordToolResultIfKnown(reg, part) ==
    IF part.type # "tool-result" \/ part.toolCallId = "" THEN reg
    ELSE IF hasCall(reg.toolCalls, part.toolCallId)
    THEN [reg EXCEPT !.hasResults = @ \cup {part.toolCallId}]
    ELSE reg

\* The loop over the content parts of an assistant message.
RECURSIVE scanParts(_, _)
scanParts(reg, parts) ==
    IF parts = <<>> THEN reg
    ELSE LET part == Head(parts)
             reg1 == IF part.type = "tool-call"
                     THEN [reg EXCEPT !.toolCalls =
                              registerToolCall(@, part.toolCallId, part.toolName)]
                     ELSE reg
         IN  scanParts(recordToolResultIfKnown(reg1, part), Tail(parts))

\* The loop over the legacy toolCalls of an assistant message.
RECURSIVE scanCalls(_, _)
scanCalls(reg, calls) ==
    IF calls = <<>> THEN reg
    ELSE scanCalls([reg EXCEPT !.toolCalls =
                        registerToolCall(@, Head(calls).toolCallId, Head(calls).toolName)],
                   Tail(calls))

\* The first loop over the messages.
RECURSIVE scanMessages(_, _)
scanMessages(reg, messages) ==
    IF messages = <<>> THEN reg
    ELSE LET message == Head(messages)
         IN  IF message.role # "assistant" THEN scanMessages(reg, Tail(messages))
             ELSE scanMessages(
                      scanCalls(IF message.isString THEN reg
                                ELSE scanParts(reg, message.parts),
                                message.toolCalls),
                      Tail(messages))

keepsToolPart(toolCalls, part) ==
    part.type # "tool-result" \/ part.toolCallId = "" \/ hasCall(toolCalls, part.toolCallId)

filterToolContent(toolCalls, parts) ==
    SelectSeq(parts, LAMBDA part : keepsToolPart(toolCalls, part))

\* The filter records no result: every call is then taken to lack one.
resolvedByNoToolMessage(toolCalls, messages) == {}

\* The ids the filter of the tool messages adds to hasResults.
resolvedByToolMessages(toolCalls, messages) ==
    {id \in {toolCalls[i].toolCallId : i \in 1..Len(toolCalls)} :
        \E i \in 1..Len(messages) :
            /\ messages[i].role = "tool"
            /\ ~messages[i].isString
            /\ \E j \in 1..Len(messages[i].parts) :
                  /\ messages[i].parts[j].type = "tool-result"
                  /\ messages[i].parts[j].toolCallId = id}

\* Each synthesized part is pushed as a tool message of its own.
pushMissingResultsOneByOne(normalized, missingResultParts) ==
    normalized \o [i \in 1..Len(missingResultParts) |->
                      PartsMessage("tool", <<missingResultParts[i]>>)]

\* The push of the synthesized parts at the end of normalizeHistoryForPrompt.
pushMissingResults(normalized, missingResultParts) ==
    IF Len(missingResultParts) > 0
    THEN Append(normalized, PartsMessage("tool", missingResultParts))
    ELSE normalized

normalizeHistoryForPrompt(messages) ==
    LET reg == scanMessages([toolCalls |-> <<>>, hasResults |-> {}], messages)
        filtered == [i \in 1..Len(messages) |->
                        IF messages[i].role # "tool" \/ messages[i].isString
                        THEN messages[i]
                        ELSE [messages[i] EXCEPT
                                 !.parts = filterToolContent(reg.toolCalls, @)]]
        normalized == SelectSeq(filtered,
                          LAMBDA m : ~(m.role = "tool" /\ ~m.isString /\ Len(m.parts) = 0))
        hasResults == reg.hasResults \cup resolvedByToolMessages(reg.toolCalls, messages)
        missing == SelectSeq(reg.toolCalls, LAMBDA c : c.toolCallId \notin hasResults)
        missingResultParts ==
            [i \in 1..Len(missing) |->
                ToolResultPart(missing[i].toolCallId, missing[i].toolName, MISSING_RESULT)]
    IN  pushMissingResults(normalized, missingResultParts)

messagesEqual(a, b) ==
    /\ Len(a) = Len(b)
    /\ \A i \in 1..Len(a) : a[i] = b[i]

\* getPromptMessages of that MemoryLayer: [M, value].
getReconciledPromptMessages(M, sessionId) ==
    LET history == listMessages(M, sessionId)
        normalized == normalizeHistoryForPrompt(history)
    IN  IF ~messagesEqual(history, normalized)
        THEN [M |-> appendEvent(replaceMessages(M, sessionId, normalized),
                                [sessionId |-> sessionId, type |-> "history_normalized",
                                 payload |-> [beforeCount |-> Len(history),
                                              afterCount |-> Len(normalized)]]),
              value |-> normalized]
        ELSE [M |-> M, value |-> history]

----------------------------------------------------------------------------
(* ai-sdk.ts: withRecollectCompaction.  W is the middleware's state; a run  *)
(* key is [sessionId, runId], with runId "none" for the null key.  A set   *)
(* of run keys is the sequence of its members in insertion order.          *)

maxRunKeys == 5000

InSeq(x, s) == \E i \in 1..Len(s) : s[i] = x

\* markSeen that refreshes the age of a key it finds: the key moves to the end.
markSeenRefreshing(set, key) ==
    IF InSeq(key, set)
    THEN Append(SelectSeq(set, LAMBDA k : k # key), key)
    ELSE IF Len(set) + 1 <= maxRunKeys THEN Append(set, key)
    ELSE Tail(Append(set, key))

markSeen(set, key) ==
    IF InSeq(key, set) THEN set
    ELSE IF Len(set) + 1 <= maxRunKeys THEN Append(set, key)
    ELSE Tail(Append(set, key))

getRunKey(sessionId, sessionRunId) == [sessionId |-> sessionId, runId |-> sessionRunId]

shouldProcessRun(seen, runKey) == runKey.runId = "none" \/ ~InSeq(runKey, seen)

markProcessedRun(seen, runKey) ==
    IF runKey.runId # "none" THEN markSeen(seen, runKey) ELSE seen

\* The end of an API call of the MemoryLayer itself.
endCall(M, K, W) ==
    [M |-> M, K |-> [K EXCEPT !.pc = "idle", !.threw = (K.pc = "threw")], W |-> W]

\* No catch: the error of the memory operation leaves the middleware, nothing
\* is returned and onMemoryError is not called.
mwRethrow(M, K, W) ==
    [M |-> M, K |-> [K EXCEPT !.pc = "idle", !.threw = TRUE], W |-> W]

\* The catch of transformParams and of wrapGenerate: onMemoryError is called;
\* transformParams returns the caller's params, wrapGenerate the model's result.
mwCatch(M, K, W) ==
    [M |-> M,
     K |-> [K EXCEPT !.pc = "idle", !.threw = TRUE, !.result = K.messages,
                     !.output = K.generated, !.errorsReported = @ + 1],
     W |-> W]

\* The prompt of the caller goes to the model, not the stored history.
mwHydrateFromParams(M, K, W) ==
    [M |-> M,
     K |-> [K EXCEPT !.pc = "idle", !.result = normalizeMessages(K.messages)],
     W |-> W]

\* ingestPromptAndHydrate from getPromptMessages on.
mwHydrate(M, K, W) ==
    [M |-> M,
     K |-> [K EXCEPT !.pc = "idle",
                     !.result = normalizeMessages(getPromptMessages(M, K.sessionId))],
     W |-> W]

mwAfterPre(M, K, W) ==
    mwHydrate(M, K, [W EXCEPT !.promptRunsSeen = markProcessedRun(@, K.runKey)])

suspended(M, K, W, cont) == [M |-> M, K |-> [K EXCEPT !.cont = cont], W |-> W]

mwAfterAdd(M, K, W) ==
    IF W.preCompact
    THEN LET then(R) ==
                 IF R.K.pc = "summarizing" THEN suspended(R.M, R.K, W, "mw_after_pre")
                 ELSE mwAfterPre(R.M, R.K, W)
         IN  then(compactIfNeeded(M, K, [mode |-> "auto-pre",
                                         reason |-> "pre_sampling_compaction",
                                         force |-> FALSE]))
    ELSE mwAfterPre(M, K, W)

ingestPromptAndHydrate(M, K, W, prompt) ==
    LET existing == getMessages(M, K.sessionId)
        promptSuffix == findPromptSuffixToAppend(existing, prompt)
        K1 == [K EXCEPT !.appended = promptSuffix, !.processed = TRUE]
        then(R) ==
            IF R.K.pc = "summarizing" THEN suspended(R.M, R.K, W, "mw_after_add")
            ELSE mwAfterAdd(R.M, R.K, W)
    IN  IF ~shouldProcessRun(W.promptRunsSeen, K.runKey) THEN mwHydrate(M, K, W)
        ELSE then(IF Len(promptSuffix) = 0 THEN [M |-> M, K |-> [K1 EXCEPT !.pc = "returned"]]
                  ELSE addMessages(M, K1, promptSuffix))

\* ingestGeneratedAndMaybeCompact from markProcessedRun on, and wrapGenerate's
\* return of the model's result.
mwGeneratedDone(M, K, W) ==
    [M |-> M,
     K |-> [K EXCEPT !.pc = "idle", !.output = K.generated],
     W |-> [W EXCEPT !.generatedRunsSeen = markProcessedRun(@, K.runKey)]]

mwGeneratedAfterAdd(M, K, W) ==
    IF W.postCompact /\ shouldRunPostCompaction(K.generated, W.postCompactStrategy)
    THEN LET then(R) ==
                 IF R.K.pc = "summarizing"
                 THEN suspended(R.M, R.K, W, "mw_generated_after_post")
                 ELSE mwGeneratedDone(R.M, R.K, W)
         IN  then(compactIfNeeded(M, K, [mode |-> "auto-post",
                                         reason |-> "post_sampling_compaction",
                                         force |-> FALSE]))
    ELSE mwGeneratedDone(M, K, W)

ingestGeneratedAndMaybeCompact(M, K, W, result) ==
    LET generatedUnique == uniqueWithinBatch(collectGeneratedMessages(result))
        K1 == [K EXCEPT !.appended = generatedUnique, !.processed = TRUE]
        then(R) ==
            IF R.K.pc = "summarizing"
            THEN suspended(R.M, R.K, W, "mw_generated_after_add")
            ELSE mwGeneratedAfterAdd(R.M, R.K, W)
    IN  IF ~shouldProcessRun(W.generatedRunsSeen, K.runKey)
        THEN [M |-> M, K |-> [K EXCEPT !.pc = "idle", !.output = K.generated], W |-> W]
        ELSE then(IF Len(generatedUnique) = 0
                  THEN [M |-> M, K |-> [K1 EXCEPT !.pc = "returned"]]
                  ELSE addMessages(M, K1, generatedUnique))

\* What follows the end of a memory operation (K.pc is "returned" or "threw").
resume(M, K, W) ==
    IF K.pc = "summarizing" THEN [M |-> M, K |-> K, W |-> W]
    ELSE IF K.cont = "none" THEN endCall(M, K, W)
    ELSE IF K.pc = "threw" THEN mwCatch(M, K, W)
    ELSE IF K.cont = "mw_after_add" THEN mwAfterAdd(M, K, W)
    ELSE IF K.cont = "mw_after_pre" THEN mwAfterPre(M, K, W)
    ELSE IF K.cont = "mw_generated_after_add" THEN mwGeneratedAfterAdd(M, K, W)
    ELSE mwGeneratedDone(M, K, W)

----------------------------------------------------------------------------
(* The inputs *)

Short == <<"w">>

Long == <<"w", "w", "w", "w", "w", "w">>

sysA == StringMessage("system", <<"guard">>)

devB == StringMessage("developer", <<"dev">>)

usrS == PartsMessage("user", <<TextPart(Short)>>)

usrL == PartsMessage("user", <<TextPart(Long)>>)

astL == PartsMessage("assistant", <<TextPart(Long)>>)

\* The user message usrS as a provider sends it: string content.
usrSString == StringMessage("user", Short)

astReasoning == PartsMessage("assistant", <<ReasoningPart(Short)>>)

SingleMessages == {sysA, devB, usrS, usrL, astL}

Batches ==
    {<<sysA, usrL, astL, usrL>>,
     <<usrL, astL, usrL, astL>>,
     <<devB, usrL, astL>>,
     <<usrL, astL>>}

\* What the summarizer may return.
Summaries == {<<"goals">>, <<"\n", "open", "risks", "remain", " ">>}

RunIds == {"none", "r1"}

BaseOptions ==
    [maxTokens |-> 40, thresholdPct |-> 50, targetTokensAfterCompaction |-> Null,
     keepRecentUserTurns |-> 1, keepRecentMessagesMin |-> 2,
     maxCompactionPasses |-> Null, minimumMessagesToCompact |-> 2]

OptionSets ==
    {BaseOptions,
     [BaseOptions EXCEPT !.thresholdPct = Null],
     [maxTokens |-> 40, thresholdPct |-> 50, targetTokensAfterCompaction |-> 1,
      keepRecentUserTurns |-> 2, keepRecentMessagesMin |-> 3,
      maxCompactionPasses |-> 2, minimumMessagesToCompact |-> 4]}

----------------------------------------------------------------------------
(* The state machine *)

Mem == [sessions |-> sessions, stats |-> stats, events |-> events]

\* No transaction is open on the connection.
NoTransaction == [open |-> FALSE, before |-> <<>>]

NewCall(op, sessionId, messages) ==
    [IdleCall EXCEPT !.pc = "running", !.op = op, !.sessionId = sessionId,
                     !.log0 = sessions[sessionId], !.stats0 = stats[sessionId],
                     !.ev0 = Len(events[sessionId]), !.messages = messages]

CanCall == call.pc = "idle" /\ ncalls < MaxCalls

Store(R) ==
    \E Q \in {R} :
        /\ sessions' = Q.M.sessions
        /\ stats' = Q.M.stats
        /\ events' = Q.M.events
        /\ call' = Q.K
        /\ mw' = Q.W
        /\ UNCHANGED <<cfg, peer, arg, ret>>

Commit(R) == Store(R) /\ UNCHANGED <<appendLog, tx, eventRows>>

Called(R) == Commit(R) /\ ncalls' = ncalls + 1

\* The input and the result of a function applied on its own.
NoArg == [existing |-> <<>>, incoming |-> <<>>]

NoRet == [done |-> FALSE, value |-> <<>>, fresh |-> FALSE, again |-> FALSE,
          previous |-> <<>>, stored |-> <<>>, eventCount |-> 0]

DefaultMiddleware ==
    [preCompact |-> TRUE, postCompact |-> TRUE, postCompactStrategy |-> "follow-up-only",
     promptRunsSeen |-> <<>>, generatedRunsSeen |-> <<>>]

InitWith(options, middlewares, args) ==
    /\ cfg \in {NewMemoryLayer(o) : o \in options}
    /\ mw \in middlewares
    /\ sessions = [s \in SessionIds |-> <<>>]
    /\ stats = [s \in SessionIds |-> DefaultStats]
    /\ events = [s \in SessionIds |-> <<>>]
    /\ call = IdleCall
    /\ peer = IdleCall
    /\ appendLog = <<>>
    /\ tx = NoTransaction
    /\ eventRows = <<>>
    /\ ncalls = 0
    /\ arg \in args
    /\ ret = NoRet

Init == InitWith(OptionSets, {DefaultMiddleware}, {NoArg})

\* The arguments of addMessage: a role with a string, and the combinations
\* with the null role, a message object and the role tool.
StringPayload(m) ==
    [isString |-> TRUE, text |-> IF m.isString THEN m.text ELSE m.parts[1].text,
     message |-> m]

ObjectPayload(m) == [isString |-> FALSE, text |-> <<>>, message |-> m]

AddMessageArguments ==
    {[role |-> m.role, payload |-> StringPayload(m)] : m \in SingleMessages}
    \cup {[role |-> "null", payload |-> ObjectPayload(usrSString)],
          [role |-> "null", payload |-> StringPayload(usrS)],
          [role |-> "user", payload |-> ObjectPayload(usrS)],
          [role |-> "tool", payload |-> StringPayload(usrS)]}

AddMessage(sid) ==
    /\ CanCall
    /\ \E a \in AddMessageArguments :
         LET built == buildMessage(a.role, a.payload)
             K == [NewCall("addMessage", sid,
                           IF built = Rejected THEN <<>> ELSE <<built>>)
                      EXCEPT !.given = [role |-> a.role,
                                        isString |-> a.payload.isString]]
         IN  \E R \in {addMessage(Mem, K, a.role, a.payload)} :
                 Called(resume(R.M, R.K, mw))

AddMessages(sid) ==
    /\ CanCall
    /\ \E messages \in Batches :
         \E R \in {addMessages(Mem, NewCall("addMessages", sid, messages), messages)} :
             Called(resume(R.M, R.K, mw))

CompactNow(sid) ==
    /\ CanCall
    /\ \E R \in {compactNow(Mem, NewCall("compactNow", sid, <<>>))} :
           Called(resume(R.M, R.K, mw))

ClearSession(sid) ==
    /\ CanCall
    /\ \E R \in {clearSession(Mem, NewCall("clearSession", sid, <<>>))} :
           Called(resume(R.M, R.K, mw))

\* The prompts a caller sends: the stored history followed by one more message,
\* the prompt of the call before, or a conversation of its own.
Prompts(sid) ==
    {sessions[sid] \o <<x>> : x \in {usrSString, usrL, astReasoning}}
    \cup {call.messages}
    \cup {<<usrL, astL, usrL, astL>>}

TransformParamsOf(sid, prompts) ==
    /\ CanCall
    /\ \E prompt \in prompts, runId \in RunIds :
         LET K == [NewCall("transformParams", sid, prompt) EXCEPT
                        !.runKey = getRunKey(sid, runId),
                        !.retry = (call.op = "transformParams"
                                   /\ runId # "none"
                                   /\ call.runKey = getRunKey(sid, runId)
                                   /\ call.messages = prompt
                                   /\ call.appended # <<>>),
                        !.resend = (call.op = "transformParams"
                                    /\ ~call.threw
                                    /\ call.sessionId = sid
                                    /\ call.messages = prompt)]
         IN  Called(ingestPromptAndHydrate(Mem, K, mw, prompt))

TransformParams(sid) == TransformParamsOf(sid, Prompts(sid))

\* What the model returns: an assistant message as content, or two messages
\* of a step (the first of them twice) with a tool call pending.
astTool ==
    PartsMessage("assistant", <<TextPart(Long), ToolCallPart("a", "toolA", NoInput)>>)

Results ==
    {[NoResult EXCEPT !.content = <<TextPart(Long)>>],
     [NoResult EXCEPT !.steps = <<<<astL, astL, astTool>>>>,
                      !.finishReason = "tool-calls"]}

WrapGenerateOf(sid, results) ==
    /\ CanCall
    /\ \E result \in results, runId \in RunIds :
         LET K == [NewCall("wrapGenerate", sid, <<>>) EXCEPT
                        !.runKey = getRunKey(sid, runId),
                        !.generated = result,
                        !.retry = (call.op = "wrapGenerate"
                                   /\ runId # "none"
                                   /\ call.runKey = getRunKey(sid, runId)
                                   /\ call.generated = result
                                   /\ call.appended # <<>>)]
         IN  Called(ingestGeneratedAndMaybeCompact(Mem, K, mw, result))

WrapGenerate(sid) == WrapGenerateOf(sid, Results)

SummarizerReturns ==
    /\ call.pc = "summarizing"
    /\ \E summary \in Summaries :
         \E R \in {compactAfterSummary(Mem, call, summary)} :
             Commit(resume(R.M, R.K, mw)) /\ UNCHANGED ncalls

SummarizerFails ==
    /\ call.pc = "summarizing"
    /\ \E R \in {compactAfterFailure(Mem, call)} :
           Commit(resume(R.M, R.K, mw)) /\ UNCHANGED ncalls

Next ==
    \E sid \in SessionIds :
        \/ AddMessage(sid)
        \/ AddMessages(sid)
        \/ CompactNow(sid)
        \/ ClearSession(sid)
        \/ SummarizerReturns
        \/ SummarizerFails

Spec == Init /\ [][Next]_vars

\* The middleware in front of the MemoryLayer.
MwInit ==
    InitWith({BaseOptions},
             {DefaultMiddleware,
              [DefaultMiddleware EXCEPT !.preCompact = FALSE,
                                        !.postCompactStrategy = "always"]},
             {NoArg})

MwNext ==
    \E sid \in SessionIds :
        \/ TransformParams(sid)
        \/ WrapGenerate(sid)
        \/ SummarizerReturns
        \/ SummarizerFails

MwSpec == MwInit /\ [][MwNext]_vars

\* findPromptSuffixToAppend on its own: the stored and the incoming list are
\* drawn at the start.
SuffixMessages == {usrS, usrSString, astL, astReasoning}

SuffixInit ==
    InitWith({BaseOptions}, {DefaultMiddleware},
             {[existing |-> existing, incoming |-> incoming] :
                 existing \in SeqsUpTo(SuffixMessages, MaxExisting),
                 incoming \in SeqsUpTo(SuffixMessages, MaxIncoming)})

FindPromptSuffixToAppend ==
    /\ ~ret.done
    /\ ret' = [NoRet EXCEPT !.done = TRUE,
                            !.value = findPromptSuffixToAppend(arg.existing, arg.incoming)]
    /\ UNCHANGED <<cfg, mw, sessions, stats, events, call, peer, appendLog, tx, eventRows, ncalls, arg>>

SuffixNext == FindPromptSuffixToAppend

SuffixSpec == SuffixInit /\ [][SuffixNext]_vars

\* The reconciled prompt view: messages are stored through the adapter and
\* the view is read.
rcUser == StringMessage("user", <<"run">>)

rcLegacyCall == LegacyCallMessage(<<"calling">>, <<LegacyToolCall("a", "toolA")>>)

rcInlineCall ==
    PartsMessage("assistant", <<TextPart(<<"calling">>),
                                ToolCallPart("b", "toolB", ObjectInput(<<>>))>>)

rcResultA == PartsMessage("tool", <<ToolResultPart("a", "toolA", <<"ok">>)>>)

rcResultAB ==
    PartsMessage("tool", <<ToolResultPart("a", "toolA", <<"ok">>),
                           ToolResultPart("b", "toolB", <<"ok">>)>>)

rcInlineResult == PartsMessage("assistant", <<ToolResultPart("b", "toolB", <<"ok">>)>>)

ToolMessages == {rcUser, rcLegacyCall, rcInlineCall, rcResultA, rcResultAB, rcInlineResult}

ReconcileInit == InitWith({BaseOptions}, {DefaultMiddleware}, {NoArg})

AppendMessage(sid) ==
    /\ ncalls < MaxView
    /\ \E message \in ToolMessages :
          sessions' = appendMessage(Mem, sid, message).sessions
    /\ ncalls' = ncalls + 1
    /\ ret' = [ret EXCEPT !.fresh = FALSE]
    /\ UNCHANGED <<cfg, mw, stats, events, call, peer, appendLog, tx, eventRows, arg>>

GetPromptMessages(sid) ==
    /\ LET R == getReconciledPromptMessages(Mem, sid)
       IN  /\ sessions' = R.M.sessions
           /\ events' = R.M.events
           /\ ret' = [done |-> TRUE, value |-> R.value, fresh |-> TRUE,
                      again |-> ret.done /\ ret.fresh, previous |-> ret.value,
                      stored |-> sessions[sid], eventCount |-> Len(events[sid])]
    /\ UNCHANGED <<cfg, mw, stats, call, peer, appendLog, tx, eventRows, ncalls, arg>>

ReconcileNext ==
    \E sid \in SessionIds :
        \/ AppendMessage(sid)
        \/ GetPromptMessages(sid)

ReconcileSpec == ReconcileInit /\ [][ReconcileNext]_vars

\* Two callers share one adapter, each working on a session of its own: a
\* call of one may start or go on while a call of the other waits for the
\* summarizer.  call is the frame of the caller of s1, peer that of s2.
AllSessionIds == {"s1", "s2"}

frameOf(sid) == IF sid = "s1" THEN call ELSE peer

SessionsInit ==
    /\ cfg = NewMemoryLayer(BaseOptions)
    /\ mw = DefaultMiddleware
    /\ sessions = [s \in AllSessionIds |-> <<>>]
    /\ stats = [s \in AllSessionIds |-> DefaultStats]
    /\ events = [s \in AllSessionIds |-> <<>>]
    /\ call = IdleCall
    /\ peer = IdleCall
    /\ appendLog = <<>>
    /\ tx = NoTransaction
    /\ eventRows = <<>>
    /\ ncalls = 0
    /\ arg = NoArg
    /\ ret = NoRet

CommitFor(sid, R) ==
    \E Q \in {R} :
        /\ sessions' = Q.M.sessions
        /\ stats' = Q.M.stats
        /\ events' = Q.M.events
        /\ IF sid = "s1" THEN call' = Q.K /\ peer' = peer
                         ELSE peer' = Q.K /\ call' = call
        /\ UNCHANGED <<cfg, mw, appendLog, tx, eventRows, arg, ret>>

CanCallOn(sid) == frameOf(sid).pc = "idle" /\ ncalls < MaxCalls

SessionBatches == {<<sysA, usrL, astL, usrL>>, <<usrL, astL>>}

AddMessagesOn(sid) ==
    /\ CanCallOn(sid)
    /\ \E messages \in SessionBatches :
         \E R \in {addMessages(Mem, NewCall("addMessages", sid, messages), messages)} :
             CommitFor(sid, resume(R.M, R.K, mw))
    /\ ncalls' = ncalls + 1

CompactNowOn(sid) ==
    /\ CanCallOn(sid)
    /\ \E R \in {compactNow(Mem, NewCall("compactNow", sid, <<>>))} :
           CommitFor(sid, resume(R.M, R.K, mw))
    /\ ncalls' = ncalls + 1

ClearSessionOn(sid) ==
    /\ CanCallOn(sid)
    /\ \E R \in {clearSession(Mem, NewCall("clearSession", sid, <<>>))} :
           CommitFor(sid, resume(R.M, R.K, mw))
    /\ ncalls' = ncalls + 1

SummarizerReturnsOn(sid) ==
    /\ frameOf(sid).pc = "summarizing"
    /\ \E summary \in Summaries :
         \E R \in {compactAfterSummary(Mem, frameOf(sid), summary)} :
             CommitFor(sid, resume(R.M, R.K, mw))
    /\ UNCHANGED ncalls

SummarizerFailsOn(sid) ==
    /\ frameOf(sid).pc = "summarizing"
    /\ \E R \in {compactAfterFailure(Mem, frameOf(sid))} :
           CommitFor(sid, resume(R.M, R.K, mw))
    /\ UNCHANGED ncalls

SessionsNext ==
    \E sid \in AllSessionIds :
        \/ AddMessagesOn(sid)
        \/ CompactNowOn(sid)
        \/ ClearSessionOn(sid)
        \/ SummarizerReturnsOn(sid)
        \/ SummarizerFailsOn(sid)

SessionsSpec == SessionsInit /\ [][SessionsNext]_vars

----------------------------------------------------------------------------
(* Properties of the compaction engine, checked under Spec *)

\* The events the call in progress (or the last call) has appended.
eventsOfCall ==
    SubSeq(events[call.sessionId], call.ev0 + 1, Len(events[call.sessionId]))

lastEvent(sid) == events[sid][Len(events[sid])]

\* C1: every committed pass stores a history with strictly fewer tokens than
\* the history it started from, and a pass whose rebuilt history has at least
\* as many tokens commits nothing: messages and statistics stay as they were,
\* a compaction_skipped event with cause no_token_reduction is the last event,
\* and the call runs no further pass.
CompactionNeverIncreases ==
    LET P == call.lastPass
        sid == call.sessionId
        rebuilt == P.plan.head \o <<checkpointMessage(P.summary)>> \o P.plan.tail
        reduces == countMessagesTokens(rebuilt) < countMessagesTokens(P.history)
    IN  /\ P.outcome = "applied" =>
              /\ reduces
              /\ P.afterTokens < P.beforeTokens
              /\ sessions[sid] = rebuilt
        /\ \A s \in SessionIds : \A i \in 1..Len(events[s]) :
              events[s][i].type = "compaction_applied" =>
                  events[s][i].payload.afterTokens < events[s][i].payload.beforeTokens
        /\ (P.outcome \in {"applied", "no_token_reduction"} /\ ~reduces) =>
              /\ sessions[sid] = P.storedBefore
              /\ stats[sid] = P.statsBefore
              /\ lastEvent(sid).type = "compaction_skipped"
              /\ lastEvent(sid).payload.cause = "no_token_reduction"
              /\ call.pc = "idle"

\* A second pass that saves nothing, after a first pass that committed.
AbortedPassReached ==
    /\ call.lastPass.outcome = "no_token_reduction"
    /\ call.lastPass.pass = 2
    /\ \E i \in 1..Len(eventsOfCall) : eventsOfCall[i].type = "compaction_applied"

\* C2: once a non-empty canonical context is captured, the history stored by
\* every committed pass begins with exactly its messages, in order.
CanonicalContextLeads ==
    LET P == call.lastPass
        sid == call.sessionId
        canonical == P.statsBefore.canonicalContext
    IN  (P.outcome = "applied" /\ Len(canonical) > 0) =>
            /\ IsPrefixOf(canonical, sessions[sid])
            /\ stats[sid].canonicalContext = canonical

\* A committed pass over a history whose pinned run is longer than the
\* canonical context it keeps.
CanonicalPassReached ==
    /\ call.lastPass.outcome = "applied"
    /\ Len(call.lastPass.statsBefore.canonicalContext) > 0
    /\ call.lastPass.plan.pinnedHeadEnd > Len(call.lastPass.statsBefore.canonicalContext)

\* The indexes (from 0) of the user messages of a history.
userIndexes(history) == {i \in 0..(Len(history) - 1) : history[i + 1].role = "user"}

\* The index of the k-th user message from the end.
kthLastUser(history, k) ==
    CHOOSE u \in userIndexes(history) :
        Cardinality({v \in userIndexes(history) : v >= u}) = k

\* C3: the history stored by a committed pass ends with the protected tail
\* of the history it started from (from the keepRecentUserTurns-th user
\* message from the end under the user-turn rule, the last
\* keepRecentMessagesMin messages under the fallback), and no message of
\* that tail was summarized.
ProtectedTailKept ==
    LET P == call.lastPass
        sid == call.sessionId
        keepFrom == IF P.plan.userRule
                    THEN kthLastUser(P.history, cfg.keepRecentUserTurns)
                    ELSE Max(0, Len(P.history) - cfg.keepRecentMessagesMin)
    IN  P.outcome = "applied" =>
            /\ IsSuffixOf(SliceFrom(P.history, keepFrom), sessions[sid])
            /\ P.plan.tailStart <= keepFrom

\* Whether sub occurs in text.
occursIn(sub, text) ==
    \E i \in 0..(Len(text) - Len(sub)) : SubSeq(text, i + 1, i + Len(sub)) = sub

\* C4: every checkpoint message of the history a pass started from is in the
\* rebuilt history, or its body is in the existingSummary the summarizer got.
NoSummaryLost ==
    LET P == call.lastPass
    IN  P.outcome = "applied" =>
            \A i \in 1..Len(P.history) :
                isSummaryMessage(P.history[i]) =>
                    \/ InSeq(P.history[i], P.nextHistory)
                    \/ occursIn(extractSummaryBody(P.history[i].text),
                                P.plan.existingSummary)

\* C10: addMessage and addMessages append at the end of the log, in order and
\* without deduplication, and run compaction exactly when the resulting log
\* has at least compactionTriggerTokens tokens; below it the summarizer is
\* not called, no compaction event is appended and the log is the old log
\* followed by the new messages.
AppendThenCompactAtTrigger ==
    LET sid == call.sessionId
        resulting == call.log0 \o call.messages
        tokens == countMessagesTokens(resulting)
        trigger == Max(1, (cfg.maxTokens * cfg.thresholdPct) \div 100)
        compactionEvents ==
            SelectSeq(eventsOfCall,
                      LAMBDA e : e.type \in {"compaction_started", "compaction_skipped",
                                             "compaction_applied"})
        committed == \E i \in 1..Len(eventsOfCall) :
                        eventsOfCall[i].type = "compaction_applied"
    IN  (call.op \in {"addMessage", "addMessages"} /\ Len(eventsOfCall) > 0) =>
            /\ (Len(compactionEvents) > 0) <=> (tokens >= trigger)
            /\ ~committed => sessions[sid] = resulting
            /\ tokens < trigger =>
                  /\ call.summarizerCalls = 0
                  /\ call.pc = "idle"

\* An append below the trigger of a message the log already holds.
DuplicateAppendReached ==
    /\ call.op = "addMessage"
    /\ call.pc = "idle"
    /\ Len(call.log0) > 0
    /\ call.messages # <<>>
    /\ InSeq(call.messages[1], call.log0)
    /\ countMessagesTokens(call.log0 \o call.messages) < compactionTriggerTokens
    /\ sessions[call.sessionId] = call.log0 \o call.messages

----------------------------------------------------------------------------
(* Properties of the reconciled prompt view, checked under ReconcileSpec *)

partIdsOf(message, type) ==
    {message.parts[j].toolCallId :
        j \in {j \in 1..Len(message.parts) : message.parts[j].type = type}}

\* The ids of the tool calls of a view: the inline tool-call parts and the
\* legacy toolCalls entries of its assistant messages.
callIdsOf(view) ==
    UNION {partIdsOf(view[i], "tool-call")
           \cup {view[i].toolCalls[j].toolCallId : j \in 1..Len(view[i].toolCalls)} :
           i \in {i \in 1..Len(view) : view[i].role = "assistant"}}

\* The ids of the tool-result parts of a view, in tool messages and inline.
resultIdsOf(view) == UNION {partIdsOf(view[i], "tool-result") : i \in 1..Len(view)}

\* C5: in every reconciled prompt view each tool call has a tool-result part
\* with its toolCallId, and no tool-result part, in a tool message or inline
\* in assistant content, has a toolCallId without a call in the view.
ViewPairsCallsAndResults ==
    ret.done =>
        /\ callIdsOf(ret.value) \subseteq resultIdsOf(ret.value)
        /\ resultIdsOf(ret.value) \subseteq callIdsOf(ret.value)

\* C6: reconciling a reconciled history changes nothing, and a second
\* getPromptMessages with no write since the first returns the same list.
ReconcileIdempotent ==
    /\ \A sid \in SessionIds :
          normalizeHistoryForPrompt(normalizeHistoryForPrompt(sessions[sid]))
              = normalizeHistoryForPrompt(sessions[sid])
    /\ ret.again => ret.value = ret.previous

\* A second read of a log the first read rewrote: an orphan result was
\* dropped and a missing result was synthesized.
SecondReadReached ==
    /\ ret.again
    /\ Len(events["s1"]) > 0
    /\ \E i \in 1..Len(ret.value) : \E j \in 1..Len(ret.value[i].parts) :
          ret.value[i].parts[j].output = MISSING_RESULT
    /\ "b" \notin resultIdsOf(ret.value)
    /\ "b" \notin callIdsOf(ret.value)

----------------------------------------------------------------------------
(* Properties of findPromptSuffixToAppend, checked under SuffixSpec *)

\* Whether the last k fingerprints of existing are the first k of incoming.
overlapsBy(existing, incoming, k) ==
    \A i \in 1..k :
        fingerprintMessage(existing[Len(existing) - k + i]) = fingerprintMessage(incoming[i])

largestOverlap(existing, incoming) ==
    CHOOSE k \in 0..Min(Len(existing), Len(incoming)) :
        /\ overlapsBy(existing, incoming, k)
        /\ \A j \in (k + 1)..Min(Len(existing), Len(incoming)) :
              ~overlapsBy(existing, incoming, j)

suffixAfterLargestOverlap ==
    LET existing == normalizeMessages(arg.existing)
        incoming == normalizeMessages(arg.incoming)
    IN  ret.value = SubSeq(incoming, largestOverlap(existing, incoming) + 1, Len(incoming))

\* C7 as stated: the result is the normalized incoming list without its
\* first k messages, k the largest overlap of the stored list's end with the
\* incoming list's start; for stored H and incoming H followed by x it is
\* exactly <<x>>, and for incoming H it is empty.
SuffixIsExactlyTheNewMessage ==
    ret.done =>
        /\ suffixAfterLargestOverlap
        /\ \A x \in SuffixMessages :
              arg.incoming = arg.existing \o <<x>> => ret.value = <<x>>
        /\ arg.incoming = arg.existing => ret.value = <<>>

\* C7: the result is the normalized incoming list without its first k
\* messages, k the largest overlap of the stored list's end with the incoming
\* list's start; for stored H and incoming H followed by x it is the
\* normalized form of <<x>> (empty when x holds only reasoning), and for
\* incoming H it is empty.
SuffixIsTheNormalizedNewMessage ==
    ret.done =>
        /\ suffixAfterLargestOverlap
        /\ \A x \in SuffixMessages :
              arg.incoming = arg.existing \o <<x>> => ret.value = normalizeMessages(<<x>>)
        /\ arg.incoming = arg.existing => ret.value = <<>>

\* A stored list of two messages resent with one more message, whose content
\* is a string.
NormalizedSuffixReached ==
    /\ ret.done
    /\ Len(arg.existing) = 2
    /\ arg.incoming = arg.existing \o <<usrSString>>
    /\ ret.value = <<usrS>>

----------------------------------------------------------------------------
(* Properties of prompt ingestion, checked under MwSpec *)

appliedInCall ==
    \E i \in 1..Len(eventsOfCall) : eventsOfCall[i].type = "compaction_applied"

textOf(message) ==
    IF message.isString THEN message.text
    ELSE Concat([j \in 1..Len(message.parts) |->
                    IF message.parts[j].type = "text" THEN message.parts[j].text
                    ELSE <<>>])

sameRoleAndText(a, b) == a.role = b.role /\ textOf(a) = textOf(b)

countOf(x, log) == Cardinality({i \in 1..Len(log) : sameRoleAndText(log[i], x)})

\* C9: a prompt that is the stored history followed by a message with the
\* role and text of a stored message has that message appended: the log then
\* holds one more occurrence of it.
RepeatedMessageIsAppended ==
    LET H == call.log0
        x == call.messages[Len(call.messages)]
    IN  (/\ call.op = "transformParams"
         /\ call.processed
         /\ Len(H) > 0
         /\ Len(call.messages) = Len(H) + 1
         /\ SubSeq(call.messages, 1, Len(H)) = H
         /\ countOf(x, H) > 0) =>
            /\ Len(call.appended) = 1
            /\ sameRoleAndText(call.appended[1], x)
            /\ ~appliedInCall =>
                  /\ sessions[call.sessionId] = H \o call.appended
                  /\ countOf(x, sessions[call.sessionId]) = countOf(x, H) + 1

\* The stored history resent with a copy of its first message at the end.
RepeatReached ==
    /\ call.op = "transformParams"
    /\ call.pc = "idle"
    /\ call.processed
    /\ Len(call.log0) > 0
    /\ call.messages = call.log0 \o <<usrSString>>
    /\ sameRoleAndText(call.log0[1], usrSString)
    /\ countOf(usrSString, sessions[call.sessionId]) = 2

----------------------------------------------------------------------------
(* Further properties of the compaction engine, checked under Spec *)

\* C11: a compaction call ends: it calls the summarizer at most
\* maxCompactionPasses times (every return of the summarizer ends the call or
\* is followed by one more of these calls), and when the history is still
\* above the target after the last pass allowed it returns without an error,
\* the history of that pass stored.
CompactionStopsAtPassLimit ==
    /\ [](/\ call.summarizerCalls <= cfg.maxCompactionPasses
          /\ call.passes <= cfg.maxCompactionPasses
          /\ (/\ call.passes = cfg.maxCompactionPasses
              /\ call.lastPass.outcome = "applied"
              /\ call.lastPass.afterTokens > cfg.targetTokensAfterCompaction) =>
                 /\ call.pc = "idle"
                 /\ ~call.threw
                 /\ sessions[call.sessionId] = call.lastPass.nextHistory
                 /\ lastEvent(call.sessionId).type = "compaction_applied")
    /\ [][call.pc = "summarizing" =>
              \/ call'.pc = "idle"
              \/ /\ call'.pc = "summarizing"
                 /\ call'.summarizerCalls = call.summarizerCalls + 1]_vars

\* A call that ran out of passes above the target.
PassLimitReached ==
    /\ call.pc = "idle"
    /\ call.passes = cfg.maxCompactionPasses
    /\ call.summarizerCalls = cfg.maxCompactionPasses
    /\ call.lastPass.outcome = "applied"
    /\ call.lastPass.afterTokens > cfg.targetTokensAfterCompaction

\* C12: when the summarizer fails the error reaches the caller and the pass
\* commits nothing: the log holds the appended messages and the result of
\* the passes before it, and neither the log, the statistics nor the events
\* change for the failed pass.
SummarizerFailureCommitsNothing ==
    LET P == call.lastPass
        sid == call.sessionId
    IN  P.outcome = "failed" =>
            /\ call.pc = "idle"
            /\ call.threw
            /\ sessions[sid] = P.storedBefore
            /\ sessions[sid] = P.history
            /\ P.pass = 1 => sessions[sid] = call.log0 \o call.messages
            /\ stats[sid] = P.statsBefore
            /\ stats[sid].compactionCount = call.statsSnap.compactionCount + (P.pass - 1)
            /\ lastEvent(sid).type =
                  (IF P.pass = 1 THEN "compaction_started" ELSE "compaction_applied")

\* A failure in the second pass of an addMessages, after a committed pass.
FailedSecondPassReached ==
    /\ call.lastPass.outcome = "failed"
    /\ call.lastPass.pass = 2
    /\ call.op = "addMessages"
    /\ sessions[call.sessionId] # call.log0 \o call.messages

----------------------------------------------------------------------------
(* Ingestion once for each run key *)

----------------------------------------------------------------------------
(* The canonical-context snapshot *)

eventsOfType(sid, type) ==
    Cardinality({i \in 1..Len(events[sid]) : events[sid][i].type = type})

\* C14: the canonical-context snapshot of a session is written at most once:
\* no step changes a snapshot that is not empty, the event
\* canonical_context_captured is recorded at most once for the session, and
\* it is recorded exactly when the snapshot is not empty.
CanonicalSnapshotWrittenOnce ==
    /\ [](\A s \in SessionIds :
            /\ eventsOfType(s, "canonical_context_captured") <= 1
            /\ (eventsOfType(s, "canonical_context_captured") = 1
                    <=> stats[s].canonicalContext # <<>>))
    /\ [][\A s \in SessionIds :
            stats[s].canonicalContext # <<>> =>
                stats'[s].canonicalContext = stats[s].canonicalContext]_vars

\* A session with a snapshot whose log was compacted and then cleared.
SnapshotSurvivesClear ==
    \E s \in SessionIds :
        /\ stats[s].canonicalContext # <<>>
        /\ eventsOfType(s, "compaction_applied") >= 1
        /\ lastEvent(s).type = "session_cleared"
        /\ sessions[s] = <<>>

----------------------------------------------------------------------------
(* Reading the prompt view *)

----------------------------------------------------------------------------
(* The synthesized results of a reconciliation *)

\* Whether part j of message i of a history is a tool-result part with this id.
isResultAt(history, i, j, id) ==
    /\ history[i].parts[j].type = "tool-result"
    /\ history[i].parts[j].toolCallId = id

\* The ids of the calls of a history that have a result: a tool-result part in
\* a tool message, or one inline in an assistant message that comes after the
\* call (in a later message, or later in the content of the call's message).
resolvedIdsOf(history) ==
    {id \in callIdsOf(history) :
        \E i \in 1..Len(history) : \E j \in 1..Len(history[i].parts) :
            /\ isResultAt(history, i, j, id)
            /\ \/ history[i].role = "tool"
               \/ /\ history[i].role = "assistant"
                  /\ \/ id \in callIdsOf(SubSeq(history, 1, i - 1))
                     \/ \E k \in 1..(j - 1) :
                           /\ history[i].parts[k].type = "tool-call"
                           /\ history[i].parts[k].toolCallId = id}

\* The number of tool-result parts of a view that stand for a missing result.
missingResultCount(view) ==
    Cardinality({ij \in UNION {{<<i, j>> : j \in 1..Len(view[i].parts)} : i \in 1..Len(view)} :
                    /\ view[ij[1]].parts[ij[2]].type = "tool-result"
                    /\ view[ij[1]].parts[ij[2]].output = MISSING_RESULT})

----------------------------------------------------------------------------
(* The arguments of addMessage *)

\* C17: addMessage called with the null role and a string, with a role and
\* a message object, or with the role tool and a string throws and leaves
\* the messages, the events and the statistics of the session as they were.
AddMessageRejectsBadArguments ==
    (/\ call.op = "addMessage"
     /\ \/ call.given.role = "null" /\ call.given.isString
        \/ call.given.role # "null" /\ ~call.given.isString
        \/ call.given.role = "tool" /\ call.given.isString) =>
        /\ call.pc = "idle"
        /\ call.threw
        /\ call.summarizerCalls = 0
        /\ sessions[call.sessionId] = call.log0
        /\ stats[call.sessionId] = call.stats0
        /\ Len(events[call.sessionId]) = call.ev0

\* A string given with the role tool to a session that holds messages.
ToolRoleStringRejected ==
    /\ call.op = "addMessage"
    /\ call.given = [role |-> "tool", isString |-> TRUE]
    /\ call.threw
    /\ call.log0 # <<>>

----------------------------------------------------------------------------
(* Memory errors inside the middleware *)

\* C18: when a memory operation fails inside transformParams or wrapGenerate
\* (here: the summarizer rejects during a compaction), the call still returns:
\* transformParams gives back the prompt it was called with, wrapGenerate the
\* result of the model, and onMemoryError has been called once.
MemoryErrorNeverFailsModelCall ==
    (/\ call.op \in {"transformParams", "wrapGenerate"}
     /\ call.lastPass.outcome = "failed") =>
        /\ call.pc = "idle"
        /\ call.errorsReported = 1
        /\ call.op = "transformParams" => call.result = call.messages
        /\ call.op = "wrapGenerate" => call.output = call.generated

\* A transformParams whose compaction failed over a log that is not the
\* prompt: the caller gets its prompt back, not the stored history.
FailedTransformParamsReached ==
    /\ call.op = "transformParams"
    /\ call.lastPass.outcome = "failed"
    /\ call.result = call.messages
    /\ call.result # normalizeMessages(getPromptMessages(Mem, call.sessionId))

----------------------------------------------------------------------------
(* The compaction statistics *)

\* The positions of the compaction_applied events of a session.
appliedEventsOf(sid) ==
    {i \in 1..Len(events[sid]) : events[sid][i].type = "compaction_applied"}

lastAppliedEvent(sid) ==
    events[sid][CHOOSE i \in appliedEventsOf(sid) : \A j \in appliedEventsOf(sid) : j <= i]

\* C19: in every state, compactionCount of a session is the number of its
\* compaction_applied events; with none the last-compaction fields are null,
\* otherwise they are the tokens before, the tokens after and the reason of
\* the last compaction_applied event.
StatsDescribeCommittedPasses ==
    \A s \in SessionIds :
        /\ stats[s].compactionCount = Cardinality(appliedEventsOf(s))
        /\ IF appliedEventsOf(s) = {}
           THEN /\ stats[s].lastCompactionTokensBefore = DefaultStats.lastCompactionTokensBefore
                /\ stats[s].lastCompactionTokensAfter = DefaultStats.lastCompactionTokensAfter
                /\ stats[s].lastCompactionReason = DefaultStats.lastCompactionReason
           ELSE /\ stats[s].lastCompactionTokensBefore = lastAppliedEvent(s).payload.beforeTokens
                /\ stats[s].lastCompactionTokensAfter = lastAppliedEvent(s).payload.afterTokens
                /\ stats[s].lastCompactionReason = lastAppliedEvent(s).payload.reason

\* Passes of two calls are counted together: the last one is a pass of
\* compactNow, an earlier one a pass of an append.
PassesOfTwoCallsCounted ==
    \E s \in SessionIds :
        /\ stats[s].compactionCount >= 2
        /\ stats[s].lastCompactionReason = "manual_compact_now"
        /\ \E i \in appliedEventsOf(s) :
              events[s][i].payload.reason # "manual_compact_now"

----------------------------------------------------------------------------
(* Forced compaction *)

\* The plan compactNow starts from: the planner on the log it found.
firstPlanOfCall ==
    planCompaction(call.log0,
                   IF call.stats0.canonicalContext # <<>>
                   THEN call.stats0.canonicalContext
                   ELSE leadingCanonicalContext(call.log0))

\* C20: compactNow records compaction_started whatever the token count of
\* the log, and runs the planner: without a plan (or with an empty slice) it
\* records compaction_skipped with cause no_compaction_plan and calls no
\* summarizer; with one it calls the summarizer, and once the summarizer has
\* returned a summary whose rebuilt history has fewer tokens the pass is
\* committed.
CompactNowIgnoresTrigger ==
    call.op = "compactNow" =>
        /\ \E i \in 1..Len(eventsOfCall) :
              /\ eventsOfCall[i].type = "compaction_started"
              /\ eventsOfCall[i].payload.initialTokens = messageTokens(call.log0)
        /\ IF ~firstPlanOfCall.ok \/ Len(firstPlanOfCall.summarizeSlice) = 0
           THEN /\ call.pc = "idle"
                /\ call.summarizerCalls = 0
                /\ lastEvent(call.sessionId).type = "compaction_skipped"
                /\ lastEvent(call.sessionId).payload.cause = "no_compaction_plan"
                /\ sessions[call.sessionId] = call.log0
           ELSE /\ call.summarizerCalls >= 1
                /\ call.lastPass.outcome = "none" => call.pc = "summarizing"
                /\ (/\ call.lastPass.pass = 1
                    /\ call.lastPass.outcome # "failed"
                    /\ call.lastPass.afterTokens < call.lastPass.beforeTokens) =>
                       /\ call.passes >= 1
                       /\ appliedInCall
                       /\ sessions[call.sessionId] = call.lastPass.nextHistory

\* compactNow on a log below the trigger that committed a pass.
ForcedPassBelowTriggerReached ==
    /\ call.op = "compactNow"
    /\ call.pc = "idle"
    /\ messageTokens(call.log0) < compactionTriggerTokens
    /\ call.passes >= 1
    /\ messageTokens(sessions[call.sessionId]) < messageTokens(call.log0)

----------------------------------------------------------------------------
(* Properties of two callers on two sessions, checked under SessionsSpec *)

\* C21: a step that is a clearSession of a session leaves its message log
\* empty, appends one session_cleared event to its events and leaves its
\* statistics, its earlier events and everything of the other session as they
\* were; until the next call on the session getMessages returns the empty list.
ClearSessionClearsOnlyTheLog ==
    /\ [](\A sid \in AllSessionIds :
            frameOf(sid).op = "clearSession" =>
                /\ frameOf(sid).pc = "idle"
                /\ ~frameOf(sid).threw
                /\ getMessages(Mem, sid) = <<>>
                /\ stats[sid] = frameOf(sid).stats0
                /\ Len(events[sid]) = frameOf(sid).ev0 + 1)
    /\ [][\A sid \in AllSessionIds :
            LET after == IF sid = "s1" THEN call' ELSE peer'
            IN  (after # frameOf(sid) /\ after.op = "clearSession") =>
                    /\ sessions'[sid] = <<>>
                    /\ events'[sid] = Append(events[sid],
                                             [sessionId |-> sid,
                                              type |-> "session_cleared",
                                              payload |-> [none |-> 0]])
                    /\ stats'[sid] = stats[sid]
                    /\ \A t \in AllSessionIds \ {sid} :
                          /\ sessions'[t] = sessions[t]
                          /\ stats'[t] = stats[t]
                          /\ events'[t] = events[t]]_vars

\* A clearSession of a session that held a compacted log.
CompactedSessionCleared ==
    /\ call.op = "clearSession"
    /\ call.log0 # <<>>
    /\ stats["s1"].compactionCount >= 1
    /\ sessions["s1"] = <<>>

----------------------------------------------------------------------------
(* The order of the stored messages.  Every message given to addMessages   *)
(* carries a word of its own, so that a stored message is recognised as    *)
(* the one that was appended, and appendLog keeps the order in which       *)
(* appendMessage received them.                                            *)

TagWords ==
    <<"m1", "m2", "m3", "m4", "m5", "m6", "m7", "m8", "m9", "m10", "m11", "m12",
      "m13", "m14", "m15", "m16", "m17", "m18", "m19", "m20">>

taggedMessage(role, n) ==
    IF role = "system" THEN StringMessage("system", <<TagWords[n]>>)
    ELSE PartsMessage(role, <<TextPart(<<TagWords[n], "w", "w", "w", "w", "w">>)>>)

OrderShapes ==
    {<<"system", "user", "assistant", "user">>,
     <<"user", "assistant">>,
     <<"assistant", "user", "user">>}

taggedBatch(shape, n) == [i \in 1..Len(shape) |-> taggedMessage(shape[i], n + i)]

AddMessagesLogged(sid) ==
    /\ CanCall
    /\ \E shape \in OrderShapes :
         \E messages \in {taggedBatch(shape, Len(appendLog))} :
             \E R \in {addMessages(Mem, NewCall("addMessages", sid, messages), messages)} :
                 /\ Store(resume(R.M, R.K, mw))
                 /\ ncalls' = ncalls + 1
                 /\ appendLog' = appendLog \o messages
                 /\ UNCHANGED <<tx, eventRows>>

OrderNext ==
    \/ \E sid \in SessionIds :
         \/ AddMessagesLogged(sid)
         \/ CompactNow(sid)
         \/ ClearSession(sid)
    \/ SummarizerReturns
    \/ SummarizerFails

OrderSpec == Init /\ [][OrderNext]_vars

\* Position in appendLog of a message that was appended, 0 of any other.
appendedAt(m) ==
    IF \E k \in 1..Len(appendLog) : appendLog[k] = m
    THEN CHOOSE k \in 1..Len(appendLog) : appendLog[k] = m
    ELSE 0

\* C22: the message log is never reordered: of two stored messages that were
\* both appended (and so survive verbatim), the one stored first is the one
\* that was appended first, whatever appends, compactions and clears came
\* before.
LogNeverReordered ==
    \A sid \in SessionIds :
        \A i, j \in 1..Len(sessions[sid]) :
            (/\ i < j
             /\ appendedAt(sessions[sid][i]) > 0
             /\ appendedAt(sessions[sid][j]) > 0)
            => appendedAt(sessions[sid][i]) < appendedAt(sessions[sid][j])

\* A compacted log that keeps an appended head message and an appended tail
\* message around a checkpoint, after messages between them were summarized.
HeadAndTailSurviveCompaction ==
    /\ call.pc = "idle"
    /\ stats["s1"].compactionCount >= 1
    /\ Len(sessions["s1"]) >= 3
    /\ appendedAt(sessions["s1"][1]) > 0
    /\ appendedAt(sessions["s1"][2]) = 0
    /\ appendedAt(sessions["s1"][3]) > appendedAt(sessions["s1"][1]) + 1

----------------------------------------------------------------------------
(* fingerprintMessage on its own: two messages are drawn at the start and   *)
(* both are fingerprinted.                                                  *)

FpEntryLists ==
    {<<<<1, "x">>, <<2, "y">>>>, <<<<2, "y">>, <<1, "x">>>>,
     <<<<1, "y">>, <<2, "x">>>>, <<<<1, "x">>>>, <<>>}

FpInputs ==
    {ObjectInput(e) : e \in FpEntryLists}
    \cup {JsonStringInput(e) : e \in FpEntryLists}
    \cup {OtherStringInput}

FpMessages ==
    {StringMessage(role, t) : role \in {"user", "assistant", "system"}, t \in {Short, Long}}
    \cup {PartsMessage(role, <<TextPart(t)>>) : role \in {"user", "assistant"},
                                                  t \in {Short, Long}}
    \cup {PartsMessage("assistant", <<ToolCallPart("a", "toolA", input)>>) :
            input \in FpInputs}
    \cup {PartsMessage("assistant", <<TextPart(Short), TextPart(Long)>>),
          PartsMessage("assistant", <<TextPart(Long), TextPart(Short)>>),
          PartsMessage("assistant",
              <<TextPart(Short),
                ToolCallPart("a", "toolA", ObjectInput(<<<<1, "x">>, <<2, "y">>>>))>>),
          PartsMessage("assistant",
              <<ToolCallPart("a", "toolA", JsonStringInput(<<<<2, "y">>, <<1, "x">>>>)),
                TextPart(Short)>>)}

FingerprintInit ==
    InitWith({BaseOptions}, {DefaultMiddleware},
             {[existing |-> <<a>>, incoming |-> <<b>>] : a, b \in FpMessages})

FingerprintMessages ==
    /\ ~ret.done
    /\ ret' = [NoRet EXCEPT !.done = TRUE,
                            !.value = <<fingerprintMessage(arg.existing[1]),
                                        fingerprintMessage(arg.incoming[1])>>]
    /\ UNCHANGED <<cfg, mw, sessions, stats, events, call, peer, appendLog, tx, eventRows, ncalls, arg>>

FingerprintNext == FingerprintMessages

FingerprintSpec == FingerprintInit /\ [][FingerprintNext]_vars

\* What a message says, whatever its surface: the content as a list of parts,
\* a string of a user or assistant message being one text part, and the input
\* of a tool call that is an object, or a string holding one, being the set of
\* its entries.
inputMeaning(input) ==
    IF input.kind \in {"object", "json-string"}
    THEN [kind |-> "object", entries |-> {input.entries[i] : i \in 1..Len(input.entries)}]
    ELSE [kind |-> input.kind, entries |-> {}]

partMeaning(part) ==
    [type |-> part.type, text |-> part.text, toolCallId |-> part.toolCallId,
     toolName |-> part.toolName, input |-> inputMeaning(part.input)]

contentMeaning(m) ==
    IF m.isString /\ m.role \in {"user", "assistant"}
    THEN <<partMeaning(TextPart(m.text))>>
    ELSE [i \in 1..Len(m.parts) |-> partMeaning(m.parts[i])]

differOnlyInSurfaceShape(a, b) ==
    /\ a.role = b.role
    /\ (a.isString /\ b.isString) => a.text = b.text
    /\ (a.isString # b.isString) => a.role \in {"user", "assistant"}
    /\ contentMeaning(a) = contentMeaning(b)

differInPartOrder(a, b) ==
    /\ a.role = b.role
    /\ ~a.isString /\ ~b.isString
    /\ Len(a.parts) = Len(b.parts)
    /\ contentMeaning(a) # contentMeaning(b)
    /\ \E swap \in [1..Len(a.parts) -> 1..Len(a.parts)] :
            \A i \in 1..Len(a.parts) :
                contentMeaning(b)[i] = contentMeaning(a)[swap[i]]

\* C23: two messages of one role that differ only in surface shape (a string
\* or one text part holding it, a tool-call input as an object or as the JSON
\* string of it, the keys of an object in another order) have the same
\* fingerprint, and two messages whose parts are the same in another order
\* have different fingerprints.
FingerprintIgnoresSurfaceShape ==
    ret.done =>
        /\ differOnlyInSurfaceShape(arg.existing[1], arg.incoming[1])
              => ret.value[1] = ret.value[2]
        /\ differInPartOrder(arg.existing[1], arg.incoming[1])
              => ret.value[1] # ret.value[2]

\* A tool call whose input is the JSON string of an object, fingerprinted with
\* the call whose input is that object with its keys in the other order.
JsonStringAndReorderedObjectFingerprinted ==
    /\ ret.done
    /\ ~arg.existing[1].isString /\ ~arg.incoming[1].isString
    /\ Len(arg.existing[1].parts) = 1 /\ Len(arg.incoming[1].parts) = 1
    /\ arg.existing[1].parts[1].input = JsonStringInput(<<<<2, "y">>, <<1, "x">>>>)
    /\ arg.incoming[1].parts[1].input = ObjectInput(<<<<1, "x">>, <<2, "y">>>>)
    /\ ret.value[1] = ret.value[2]

----------------------------------------------------------------------------
(* The middleware with prompts and results that hold reasoning parts, and   *)
(* with post-sampling compaction switched on and off.                       *)

astThinkText == PartsMessage("assistant", <<ReasoningPart(Short), TextPart(Long)>>)

IngestMiddlewares ==
    {DefaultMiddleware,
     [DefaultMiddleware EXCEPT !.preCompact = FALSE, !.postCompactStrategy = "always"],
     [DefaultMiddleware EXCEPT !.postCompact = FALSE, !.postCompactStrategy = "always"]}

IngestPrompts(sid) ==
    {sessions[sid] \o <<x>> : x \in {usrL, astReasoning, astThinkText}}

IngestResults ==
    {[NoResult EXCEPT !.content = <<ReasoningPart(Short), TextPart(Long)>>],
     [NoResult EXCEPT !.content = <<ReasoningPart(Short)>>, !.finishReason = "length"],
     [NoResult EXCEPT !.steps = <<<<astThinkText, astReasoning, astTool>>>>,
                      !.finishReason = "tool-calls"]}

IngestInit == InitWith({BaseOptions}, IngestMiddlewares, {NoArg})

IngestNext ==
    \/ \E sid \in SessionIds :
         \/ TransformParamsOf(sid, IngestPrompts(sid))
         \/ WrapGenerateOf(sid, IngestResults)
    \/ SummarizerReturns
    \/ SummarizerFails

IngestSpec == IngestInit /\ [][IngestNext]_vars

hasReasoning(m) ==
    ~m.isString /\ \E i \in 1..Len(m.parts) : m.parts[i].type = "reasoning"

hasNoContent(m) == ~m.isString /\ Len(m.parts) = 0

\* The messages of a prompt or of a result that have something left once
\* their reasoning parts are taken out.
withOtherParts(messages) ==
    SelectSeq(messages,
              LAMBDA m : m.isString
                         \/ \E i \in 1..Len(m.parts) : m.parts[i].type # "reasoning")

\* C24: no message that came in through the middleware is stored with a
\* reasoning part or with an empty part list, and what a call appends never
\* holds more messages than its input has messages with a part other than
\* reasoning: a message of reasoning parts only is dropped.
NoReasoningStored ==
    /\ \A sid \in SessionIds :
         \A i \in 1..Len(sessions[sid]) :
            ~hasReasoning(sessions[sid][i]) /\ ~hasNoContent(sessions[sid][i])
    /\ \A i \in 1..Len(call.appended) :
            ~hasReasoning(call.appended[i]) /\ ~hasNoContent(call.appended[i])
    /\ call.op = "wrapGenerate" =>
            Len(call.appended)
                <= Len(withOtherParts(collectGeneratedMessages(call.generated)))
    /\ call.op = "transformParams" =>
            Len(call.appended) <= Len(withOtherParts(call.messages))

\* A result whose steps hold a message with a reasoning and a text part and a
\* message of reasoning only was ingested: the first is stored as its text
\* part, the second is not stored.
ReasoningStrippedFromResult ==
    /\ call.op = "wrapGenerate" /\ call.pc = "idle" /\ ~call.threw
    /\ call.generated.steps = <<<<astThinkText, astReasoning, astTool>>>>
    /\ call.appended = <<astL, astTool>>
    /\ Len(sessions["s1"]) >= 2
    /\ \E i \in 1..Len(sessions["s1"]) : sessions["s1"][i] = astL

\* The events of the call that carry the mode auto-post.
autoPostEventsOfCall ==
    SelectSeq(eventsOfCall,
              LAMBDA e : "mode" \in DOMAIN e.payload /\ e.payload.mode = "auto-post")

postCompactionDue ==
    /\ mw.postCompact
    /\ \/ mw.postCompactStrategy = "always"
       \/ call.generated.finishReason \in {"tool-calls", "length"}

----------------------------------------------------------------------------
(* SQLiteStorageAdapter, statement by statement.  Two callers, each on a   *)
(* session of its own, share the adapter and so its one connection; every  *)
(* statement is awaited, so the statements of the two interleave.  The     *)
(* messages, stats and events tables are sessions, stats and events as the *)
(* connection sees them; tx.before is what ROLLBACK brings back.           *)

setFrame(sid, K) ==
    IF sid = "s1" THEN call' = K /\ peer' = peer ELSE peer' = K /\ call' = call

CanRunOn(sid) == frameOf(sid).pc = "idle" /\ ncalls < 2 * MaxCalls

SqlMessages == {usrS, astL}

SqlHistories == {<<sysA, usrS>>, <<astL>>}

SqlInit == SessionsInit

\* appendMessage: one INSERT.
SqlAppendMessage(sid) ==
    /\ CanRunOn(sid)
    /\ \E message \in SqlMessages :
         /\ sessions' = [sessions EXCEPT ![sid] = Append(@, message)]
         /\ setFrame(sid, [NewCall("appendMessage", sid, <<message>>) EXCEPT !.pc = "idle"])
    /\ ncalls' = ncalls + 1
    /\ UNCHANGED <<cfg, mw, stats, events, appendLog, tx, eventRows, arg, ret>>

\* clearSession: one DELETE.
SqlClearSession(sid) ==
    /\ CanRunOn(sid)
    /\ sessions' = [sessions EXCEPT ![sid] = <<>>]
    /\ setFrame(sid, [NewCall("clearSession", sid, <<>>) EXCEPT !.pc = "idle"])
    /\ ncalls' = ncalls + 1
    /\ UNCHANGED <<cfg, mw, stats, events, appendLog, tx, eventRows, arg, ret>>

\* appendEvent: one INSERT into the events table.
SqlAppendEvent(sid) ==
    /\ CanRunOn(sid)
    /\ events' = [events EXCEPT ![sid] =
                    Append(@, [sessionId |-> sid, type |-> "messages_appended",
                               payload |-> [count |-> 1]])]
    /\ setFrame(sid, [NewCall("appendEvent", sid, <<>>) EXCEPT !.pc = "idle"])
    /\ ncalls' = ncalls + 1
    /\ UNCHANGED <<cfg, mw, sessions, stats, appendLog, tx, eventRows, arg, ret>>

\* replaceMessages is called; its first statement is BEGIN TRANSACTION.
SqlReplaceMessages(sid) ==
    /\ CanRunOn(sid)
    /\ \E messages \in SqlHistories :
         setFrame(sid, [NewCall("replaceMessages", sid, messages) EXCEPT !.pc = "begin"])
    /\ ncalls' = ncalls + 1
    /\ UNCHANGED <<cfg, mw, sessions, stats, events, appendLog, tx, eventRows, arg, ret>>

\* BEGIN TRANSACTION, outside the try: on a connection with a transaction
\* open it fails and replaceMessages throws.
SqlBegin(sid) ==
    /\ frameOf(sid).pc = "begin"
    /\ IF tx.open
       THEN /\ setFrame(sid, [frameOf(sid) EXCEPT !.pc = "idle", !.threw = TRUE])
            /\ UNCHANGED tx
       ELSE /\ setFrame(sid, [frameOf(sid) EXCEPT !.pc = "delete"])
            /\ tx' = [open |-> TRUE, before |-> Mem]
    /\ UNCHANGED <<cfg, mw, sessions, stats, events, appendLog, eventRows, ncalls, arg, ret>>

\* clearSession inside the try.
SqlDelete(sid) ==
    /\ frameOf(sid).pc = "delete"
    /\ sessions' = [sessions EXCEPT ![sid] = <<>>]
    /\ setFrame(sid, [frameOf(sid) EXCEPT !.pc = "insert"])
    /\ UNCHANGED <<cfg, mw, stats, events, appendLog, tx, eventRows, ncalls, arg, ret>>

\* appendMessage of the next message of the loop.
SqlInsert(sid) ==
    /\ frameOf(sid).pc = "insert"
    /\ frameOf(sid).messages # <<>>
    /\ sessions' = [sessions EXCEPT ![sid] = Append(@, Head(frameOf(sid).messages))]
    /\ setFrame(sid, [frameOf(sid) EXCEPT !.messages = Tail(@)])
    /\ UNCHANGED <<cfg, mw, stats, events, appendLog, tx, eventRows, ncalls, arg, ret>>

\* COMMIT after the loop; with no transaction open it fails into the catch.
SqlCommit(sid) ==
    /\ frameOf(sid).pc = "insert"
    /\ frameOf(sid).messages = <<>>
    /\ IF tx.open
       THEN /\ setFrame(sid, [frameOf(sid) EXCEPT !.pc = "idle"])
            /\ tx' = NoTransaction
       ELSE /\ setFrame(sid, [frameOf(sid) EXCEPT !.pc = "rollback"])
            /\ UNCHANGED tx
    /\ UNCHANGED <<cfg, mw, sessions, stats, events, appendLog, eventRows, ncalls, arg, ret>>

\* A statement inside the try is rejected by the database: the catch is
\* entered.
SqlStatementFails(sid) ==
    /\ frameOf(sid).pc \in {"delete", "insert"}
    /\ setFrame(sid, [frameOf(sid) EXCEPT !.pc = "rollback"])
    /\ UNCHANGED <<cfg, mw, sessions, stats, events, appendLog, tx, eventRows, ncalls, arg, ret>>

\* The catch: ROLLBACK, then the error is thrown.  ROLLBACK undoes every
\* statement the connection ran since BEGIN.
SqlRollback(sid) ==
    /\ frameOf(sid).pc = "rollback"
    /\ IF tx.open
       THEN /\ sessions' = tx.before.sessions
            /\ stats' = tx.before.stats
            /\ events' = tx.before.events
            /\ tx' = NoTransaction
       ELSE UNCHANGED <<sessions, stats, events, tx>>
    /\ setFrame(sid, [frameOf(sid) EXCEPT !.pc = "idle", !.threw = TRUE])
    /\ UNCHANGED <<cfg, mw, appendLog, eventRows, ncalls, arg, ret>>

SqlNext ==
    \E sid \in AllSessionIds :
        \/ SqlAppendMessage(sid)
        \/ SqlClearSession(sid)
        \/ SqlAppendEvent(sid)
        \/ SqlReplaceMessages(sid)
        \/ SqlBegin(sid)
        \/ SqlDelete(sid)
        \/ SqlInsert(sid)
        \/ SqlCommit(sid)
        \/ SqlStatementFails(sid)
        \/ SqlRollback(sid)

SqlSpec == SqlInit /\ [][SqlNext]_vars

\* C26: sessions are independent: a step of an operation on one session,
\* taken between the steps of an operation on another session of the same
\* adapter, leaves the message log, the stats and the events of the other
\* session as they were.
SessionsIndependent ==
    [][\A sid \in AllSessionIds :
         LET after == IF sid = "s1" THEN call' ELSE peer'
         IN  after # frameOf(sid) =>
                \A other \in AllSessionIds \ {sid} :
                    /\ sessions'[other] = sessions[other]
                    /\ stats'[other] = stats[other]
                    /\ events'[other] = events[other]]_vars

----------------------------------------------------------------------------
(* listEvents of the two adapters.  Every event is appended to both, and    *)
(* both are asked for the events of a session with the same limit.          *)

RECURSIVE Reverse(_)
Reverse(s) == IF s = <<>> THEN <<>> ELSE Reverse(Tail(s)) \o <<Head(s)>>

\* SQLiteStorageAdapter.appendEvent: the row gets the next id.
sqliteAppendEvent(rows, event) ==
    Append(rows, [id |-> Len(rows) + 1, sessionId |-> event.sessionId,
                  type |-> event.type, payload |-> event.payload])

\* SELECT ... WHERE sessionId = ? ORDER BY id DESC LIMIT ?, then
\* rows.reverse().map(...).
sqliteListEvents(rows, sessionId, limit) ==
    LET ofSession == SelectSeq(rows, LAMBDA row : row.sessionId = sessionId)
        descending == Reverse(ofSession)
        limited == SubSeq(descending, 1, Min(limit, Len(descending)))
        ascending == Reverse(limited)
    IN  [i \in 1..Len(ascending) |->
            [sessionId |-> ascending[i].sessionId, type |-> ascending[i].type,
             payload |-> ascending[i].payload]]

EventTypes == {"messages_appended", "session_cleared"}

EventsInit == SessionsInit

AppendEvent(sid) ==
    /\ Len(eventRows) < MaxIncoming + 1
    /\ \E type \in EventTypes :
         \E event \in {[sessionId |-> sid, type |-> type,
                        payload |-> [n |-> Len(eventRows)]]} :
             /\ events' = storage_appendEvent(Mem, event).events
             /\ eventRows' = sqliteAppendEvent(eventRows, event)
    /\ ret' = NoRet
    /\ UNCHANGED <<cfg, mw, sessions, stats, call, peer, appendLog, tx, ncalls, arg>>

ListEvents(sid) ==
    /\ \E limit \in 0..(MaxView + 1) :
         /\ arg' = [sessionId |-> sid, limit |-> limit]
         /\ ret' = [NoRet EXCEPT !.done = TRUE,
                                 !.value = listEvents(Mem, sid, limit),
                                 !.previous = sqliteListEvents(eventRows, sid, limit)]
    /\ UNCHANGED <<cfg, mw, sessions, stats, events, call, peer, appendLog, tx,
                   eventRows, ncalls>>

EventsNext == \E sid \in AllSessionIds : AppendEvent(sid) \/ ListEvents(sid)

EventsSpec == EventsInit /\ [][EventsNext]_vars

\* The events appended for a session, in the order of the appends.
appendedEventsOf(sid) ==
    LET ofSession == SelectSeq(eventRows, LAMBDA row : row.sessionId = sid)
    IN  [i \in 1..Len(ofSession) |->
            [sessionId |-> sid, type |-> ofSession[i].type,
             payload |-> ofSession[i].payload]]

\* C27: listEvents(sessionId, limit) returns the min(limit, n) most recent
\* events of the session and of no other, oldest first, for every limit from
\* 0 on, and the in-memory and the SQLite adapter return the same events
\* after the same appendEvent calls.
ListEventsReturnsMostRecent ==
    ret.done =>
        LET all == appendedEventsOf(arg.sessionId)
            n == Len(all)
            k == Min(arg.limit, n)
            expected == SubSeq(all, n - k + 1, n)
        IN  /\ ret.value = expected
            /\ ret.previous = expected

----------------------------------------------------------------------------
(* countMessagesTokens on messages as a caller may hand them over: content  *)
(* parts of every type, a null in a content array, and tool-result parts    *)
(* with a result field, an output field or both.  A field that is absent    *)
(* is Undefined.                                                            *)

Undefined == [defined |-> FALSE, words |-> <<>>]

Defined(words) == [defined |-> TRUE, words |-> words]

\* A content part as the accountant reads it.
RawPart(type, text, result, output) ==
    [isNull |-> FALSE, type |-> type, text |-> text, result |-> result, output |-> output]

NullPart == [isNull |-> TRUE, type |-> "", text |-> <<>>, result |-> Undefined,
             output |-> Undefined]

RawMessage(role, isString, text, parts, toolCalls) ==
    [role |-> role, isString |-> isString, text |-> text, parts |-> parts,
     toolCalls |-> toolCalls]

\* a ?? b
orElse(a, b) == IF a.defined THEN a ELSE b

\* JSON.stringify(value) ?? "": the text of the value, the empty text for
\* undefined.
stringifyOrEmpty(value) == IF value.defined THEN value.words ELSE <<>>

\* The loops of countMessagesTokens over one message, in the order of the
\* code.  Reading part.type of a null part raises a TypeError.
rawContentTokens(m) ==
    IF m.isString THEN counter(m.text)
    ELSE SumSeq([i \in 1..Len(m.parts) |->
                    IF m.parts[i].type = "text" THEN counter(m.parts[i].text)
                    ELSE IF m.parts[i].type = "image" THEN 85
                    ELSE IF m.parts[i].type = "file" THEN 85
                    ELSE 0])

rawToolCallTokens(m) ==
    IF m.role = "assistant"
    THEN SumSeq([i \in 1..Len(m.toolCalls) |-> toolCallTokens(m.toolCalls[i])])
    ELSE 0

\* The value of a tool-result part taken with the fields the other way round.
resultValueOutputFirst(part) == orElse(part.output, part.result)

\* const resultValue = result.result ?? result.output
resultValue(part) == orElse(part.result, part.output)

rawToolResultTokens(m) ==
    IF m.role = "tool" /\ ~m.isString
    THEN SumSeq([i \in 1..Len(m.parts) |->
                    IF m.parts[i].type = "tool-result"
                    THEN counter(stringifyOrEmpty(resultValue(m.parts[i]))) + 10
                    ELSE 0])
    ELSE 0

raisesTypeError(m) == ~m.isString /\ \E i \in 1..Len(m.parts) : m.parts[i].isNull

\* countMessagesTokens(messages, counter): the sum, or the error raised.
countRawMessagesTokens(messages) ==
    IF \E i \in 1..Len(messages) : raisesTypeError(messages[i])
    THEN [threw |-> TRUE, tokens |-> 0]
    ELSE [threw |-> FALSE,
          tokens |-> SumSeq([i \in 1..Len(messages) |->
                        4 + rawContentTokens(messages[i])
                          + rawToolCallTokens(messages[i])
                          + rawToolResultTokens(messages[i])])]

RawParts ==
    {RawPart("text", Short, Undefined, Undefined),
     RawPart("text", Long, Undefined, Undefined),
     RawPart("image", <<>>, Undefined, Undefined),
     RawPart("file", <<>>, Undefined, Undefined),
     RawPart("custom", Long, Undefined, Undefined),
     RawPart("tool-call", <<>>, Undefined, Undefined),
     RawPart("tool-result", <<>>, Undefined, Defined(Long)),
     RawPart("tool-result", <<>>, Defined(Short), Undefined),
     RawPart("tool-result", <<>>, Defined(Short), Defined(Long)),
     RawPart("tool-result", <<>>, Undefined, Undefined),
     NullPart}

RawMessages ==
    {RawMessage(role, TRUE, text, <<>>, calls) :
        role \in {"user", "assistant", "tool"}, text \in {Short, Long},
        calls \in {<<>>, <<LegacyToolCall("a", "toolA")>>}}
    \cup {RawMessage(role, FALSE, <<>>, parts, calls) :
            role \in {"user", "assistant", "tool"},
            parts \in SeqsUpTo(RawParts, 2),
            calls \in {<<>>, <<LegacyToolCall("a", "toolA")>>}}

TokensInit ==
    InitWith({BaseOptions}, {DefaultMiddleware},
             {[messages |-> <<m>>] : m \in RawMessages}
             \cup {[messages |-> <<a, b>>] :
                     a, b \in {RawMessage("tool", FALSE, <<>>, <<p>>, <<>>) : p \in RawParts}})

CountMessagesTokens ==
    /\ ~ret.done
    /\ \E R \in {countRawMessagesTokens(arg.messages)} :
         ret' = [done |-> TRUE, threw |-> R.threw, value |-> R.tokens]
    /\ UNCHANGED <<cfg, mw, sessions, stats, events, call, peer, appendLog, tx,
                   eventRows, ncalls, arg>>

TokensNext == CountMessagesTokens

TokensSpec == TokensInit /\ [][TokensNext]_vars

\* The cost of one message as the contract gives it; a null part, like a part
\* of an unknown type, adds nothing.
contractCost(m) ==
    4
    + (IF m.isString THEN counter(m.text)
       ELSE SumSeq([i \in 1..Len(m.parts) |->
                LET part == m.parts[i]
                IN  IF part.isNull THEN 0
                    ELSE (IF part.type = "text" THEN counter(part.text)
                          ELSE IF part.type \in {"file", "image"} THEN 85
                          ELSE 0)
                         + (IF m.role = "tool" /\ part.type = "tool-result"
                            THEN counter(stringifyOrEmpty(resultValueOutputFirst(part))) + 10
                            ELSE 0)]))
    + (IF m.role = "assistant"
       THEN SumSeq([i \in 1..Len(m.toolCalls) |->
                counter(<<m.toolCalls[i].toolName>>) + counter(m.toolCalls[i].args) + 10])
       ELSE 0)

\* C28: countMessagesTokens raises no error and returns the sum over the
\* messages of 4, the counter of the string content or of each text part, 85
\* for each file or image part, counter(toolName) + counter(args) + 10 for
\* each tool-call entry of an assistant message and counter(output ?? result)
\* + 10 for each tool-result part of a tool message; every other part, a
\* malformed one included, adds nothing.
TokenCostFollowsContract ==
    ret.done =>
        /\ ~ret.threw
        /\ ret.value = SumSeq([i \in 1..Len(arg.messages) |-> contractCost(arg.messages[i])])

\* C29: a plan follows the user-turn rule whenever at least
\* keepRecentUserTurns user messages stand at or after the pinned head,
\* exactly that many included, and its tail then starts at the
\* keepRecentUserTurns-th user message from the end; the fallback on
\* keepRecentMessagesMin is used only when fewer user messages stand there.
UserTurnRuleFromExactlyEnough ==
    (call.pc = "summarizing" /\ call.plan.ok) =>
        LET userBoundaries == userBoundariesFrom(call.history, call.plan.pinnedHeadEnd)
            turns == Len(userBoundaries)
        IN  /\ turns >= cfg.keepRecentUserTurns =>
                /\ call.plan.userRule
                /\ call.plan.tailStart = userBoundaries[turns - cfg.keepRecentUserTurns + 1]
            /\ turns < cfg.keepRecentUserTurns => ~call.plan.userRule

\* The longest run of system and developer messages at the start of a list.
leadingInstructionRun(messages) ==
    LET k == CHOOSE n \in 0..Len(messages) :
                /\ \A i \in 1..n : messages[i].role \in {"system", "developer"}
                /\ n < Len(messages) => messages[n + 1].role \notin {"system", "developer"}
    IN  SubSeq(messages, 1, k)

\* C30: a committed pass stores exactly head, one checkpoint, tail: the head
\* is the captured canonical context when there is one and the leading run of
\* system and developer messages of the history otherwise, the checkpoint is
\* a system message whose string content is the prefix, a newline and the
\* trimmed summary, the tail is the planned one, and extractSummaryBody of the
\* checkpoint's content gives the trimmed summary back.
CommittedPassStoresHeadCheckpointTail ==
    call.lastPass.outcome = "applied" =>
        LET P == call.lastPass
            canonical == P.statsBefore.canonicalContext
            head == IF Len(canonical) > 0 THEN canonical
                    ELSE leadingInstructionRun(P.history)
            tail == SubSeq(P.history, P.plan.tailStart + 1, Len(P.history))
            stored == sessions[call.sessionId]
            checkpoint == stored[Len(head) + 1]
        IN  /\ Len(stored) = Len(head) + 1 + Len(tail)
            /\ SubSeq(stored, 1, Len(head)) = head
            /\ SubSeq(stored, Len(head) + 2, Len(stored)) = tail
            /\ checkpoint.role = "system" /\ checkpoint.isString
            /\ checkpoint.text = SUMMARY_MESSAGE_PREFIX \o <<"\n">> \o Trim(P.summary)
            /\ extractSummaryBody(checkpoint.text) = Trim(P.summary)

\* A pass committed with a canonical head in front and a summary that came
\* with whitespace around it.
CheckpointOfUntrimmedSummaryStored ==
    /\ call.lastPass.outcome = "applied"
    /\ Len(call.lastPass.statsBefore.canonicalContext) > 0
    /\ call.lastPass.summary # Trim(call.lastPass.summary)
    /\ Len(call.lastPass.plan.tail) > 0
    /\ sessions[call.sessionId] = call.lastPass.nextHistory

----------------------------------------------------------------------------
(* The pass loop of one compaction call, checked under Spec *)

\* The call has just tried one more pass: the summarizer is called again, or
\* the pass found nothing to summarize and recorded that.
anotherPassAttempted(K, sid, evs) ==
    \/ K.pc = "summarizing"
    \/ /\ K.pc = "idle"
       /\ evs[sid][Len(evs[sid])].type = "compaction_skipped"
       /\ evs[sid][Len(evs[sid])].payload.cause = "no_compaction_plan"
       /\ evs[sid][Len(evs[sid])].payload.detail.pass = K.passes + 1

\* The call ended with the committed pass: nothing recorded after its
\* compaction_applied event and the summarizer not called again.
stoppedAfterPass(K, sid, evs, callsBefore) ==
    /\ K.pc = "idle"
    /\ ~K.threw
    /\ K.summarizerCalls = callsBefore
    /\ evs[sid][Len(evs[sid])].type = "compaction_applied"

\* C31: within one compaction call, a committed pass whose afterTokens is at
\* or below targetTokensAfterCompaction is the last one; above the target one
\* more pass is attempted while the pass counter is below maxCompactionPasses
\* (and, for a call that is not forced, while the history is at or above the
\* trigger); a call that is not forced stops without one more summarizer call
\* as soon as the token count is below the trigger, so the summarizer of such
\* a call only ever sees a history at or above the trigger.
PassLoopFollowsTargetLimitAndTrigger ==
    /\ []((call.pc = "summarizing" /\ ~call.options.force) =>
              messageTokens(call.history) >= compactionTriggerTokens)
    /\ [](call.pc = "summarizing" => call.passes < cfg.maxCompactionPasses)
    /\ [][(call.pc = "summarizing" /\ call'.passes = call.passes + 1) =>
              LET P == call'.lastPass
                  sid == call.sessionId
                  belowTrigger == /\ ~call.options.force
                                  /\ P.afterTokens < compactionTriggerTokens
              IN  /\ P.outcome = "applied"
                  /\ P.afterTokens <= cfg.targetTokensAfterCompaction =>
                         stoppedAfterPass(call', sid, events', call.summarizerCalls)
                  /\ belowTrigger =>
                         stoppedAfterPass(call', sid, events', call.summarizerCalls)
                  /\ call'.passes >= cfg.maxCompactionPasses =>
                         stoppedAfterPass(call', sid, events', call.summarizerCalls)
                  /\ (/\ P.afterTokens > cfg.targetTokensAfterCompaction
                      /\ call'.passes < cfg.maxCompactionPasses
                      /\ ~belowTrigger) =>
                         anotherPassAttempted(call', sid, events')]_vars

\* A call that is not forced has stopped after a committed pass that left the
\* history above the target and below the trigger, with passes to spare.
StoppedBelowTriggerAboveTarget ==
    /\ call.pc = "idle"
    /\ ~call.options.force
    /\ call.lastPass.outcome = "applied"
    /\ call.passes >= 1
    /\ call.passes < cfg.maxCompactionPasses
    /\ call.lastPass.afterTokens > cfg.targetTokensAfterCompaction
    /\ call.lastPass.afterTokens < compactionTriggerTokens
    /\ sessions[call.sessionId] = call.lastPass.nextHistory

----------------------------------------------------------------------------
(* A log shorter than minimumMessagesToCompact, checked under Spec *)

\* The step starts a call whose compaction request (compactNow, or the
\* compactIfNeeded of an append that left the log at or above the trigger)
\* finds fewer than minimumMessagesToCompact messages stored.
compactionOfShortLogRequested ==
    /\ ncalls' = ncalls + 1
    /\ ~call'.threw
    /\ Len(sessions'[call'.sessionId]) < cfg.minimumMessagesToCompact
    /\ \/ call'.op = "compactNow"
       \/ /\ call'.op \in {"addMessage", "addMessages"}
          /\ messageTokens(sessions'[call'.sessionId]) >= compactionTriggerTokens

\* C32: a compaction request on a log of fewer than minimumMessagesToCompact
\* messages, forced or at or above the trigger, summarizes nothing: the call
\* ends without a summarizer call, the log is the one the request found (what
\* was stored before, with the messages of the append behind it), and the
\* events of the call are compaction_started followed by compaction_skipped
\* with the cause no_compaction_plan.
ShortLogIsNeverSummarized ==
    [][compactionOfShortLogRequested =>
          LET sid == call'.sessionId
              evs == SubSeq(events'[sid], Len(events[sid]) + 1, Len(events'[sid]))
              compactionEvents ==
                  SelectSeq(evs, LAMBDA e : e.type \in {"compaction_started",
                                                         "compaction_skipped",
                                                         "compaction_applied"})
          IN  /\ call'.pc = "idle"
              /\ call'.summarizerCalls = 0
              /\ call'.lastPass = NoPass
              /\ sessions'[sid] =
                    sessions[sid] \o (IF call'.op = "compactNow" THEN <<>>
                                      ELSE call'.messages)
              /\ stats'[sid].compactionCount = stats[sid].compactionCount
              /\ Len(compactionEvents) = 2
              /\ compactionEvents[1].type = "compaction_started"
              /\ compactionEvents[2].type = "compaction_skipped"
              /\ compactionEvents[2].payload.cause = "no_compaction_plan"]_vars

\* An append that was not forced left three long messages, above the trigger
\* and fewer than minimumMessagesToCompact, and the call skipped for want of a
\* plan.
ShortLogAboveTriggerSkipped ==
    /\ call.pc = "idle"
    /\ call.op \in {"addMessage", "addMessages"}
    /\ ~call.threw
    /\ cfg.minimumMessagesToCompact = 4
    /\ Len(sessions[call.sessionId]) = 3
    /\ messageTokens(sessions[call.sessionId]) >= compactionTriggerTokens
    /\ call.summarizerCalls = 0
    /\ Len(events[call.sessionId]) > call.ev0
    /\ lastEvent(call.sessionId).type = "compaction_skipped"
    /\ lastEvent(call.sessionId).payload.cause = "no_compaction_plan"

----------------------------------------------------------------------------
(* compactIfNeeded called by the application, with a mode and a reason *)

\* What a caller of compactIfNeeded passes, the defaults of its options
\* (mode "manual", reason "compaction_requested", force false) filled in.
CompactRequests ==
    {[mode |-> "manual", reason |-> "compaction_requested", force |-> FALSE],
     [mode |-> "auto-pre", reason |-> "pre_sampling_compaction", force |-> FALSE],
     [mode |-> "auto-post", reason |-> "post_sampling_compaction", force |-> TRUE]}

CompactIfNeeded(sid) ==
    /\ CanCall
    /\ \E options \in CompactRequests :
         \E R \in {compactIfNeeded(Mem, NewCall("compactIfNeeded", sid, <<>>), options)} :
             Called(resume(R.M, R.K, mw))

RequestNext ==
    \E sid \in SessionIds :
        \/ AddMessage(sid)
        \/ AddMessages(sid)
        \/ CompactIfNeeded(sid)
        \/ SummarizerReturns
        \/ SummarizerFails

RequestSpec == Init /\ [][RequestNext]_vars

\* The step is a compactIfNeeded without force on a log below the trigger.
compactIfNeededBelowTrigger ==
    /\ ncalls' = ncalls + 1
    /\ call'.op = "compactIfNeeded"
    /\ ~call'.options.force
    /\ messageTokens(sessions[call'.sessionId]) < compactionTriggerTokens

\* The events the step has appended to the log of events of a session.
eventsOfStep(sid) == SubSeq(events'[sid], Len(events[sid]) + 1, Len(events'[sid]))

\* What a compactIfNeeded below the trigger does whatever the statistics: one
\* compaction_skipped event (cause below_trigger, the requested mode and
\* reason), no compaction_started event, no summarizer call, the log as it was.
skipsBelowTrigger(sid) ==
    LET skipped == SelectSeq(eventsOfStep(sid),
                             LAMBDA e : e.type = "compaction_skipped")
        started == SelectSeq(eventsOfStep(sid),
                             LAMBDA e : e.type \in {"compaction_started",
                                                    "compaction_applied"})
    IN  /\ Len(skipped) = 1
        /\ skipped[1].payload.cause = "below_trigger"
        /\ skipped[1].payload.mode = call'.options.mode
        /\ skipped[1].payload.reason = call'.options.reason
        /\ started = <<>>
        /\ call'.pc = "idle"
        /\ ~call'.threw
        /\ call'.summarizerCalls = 0
        /\ sessions'[sid] = sessions[sid]

----------------------------------------------------------------------------
(* The run-dedup caches of the middleware, filled to their capacity *)

\* The run ids the caller's resolveSessionRunId gives, one per run.
RunIdOf(n) == ToString(n)

\* Runs enough to fill a cache and to evict from it.
MaxRuns == maxRunKeys + 2

\* The cache of a middleware that has served n runs with distinct run ids,
\* n at most maxRunKeys: their keys in the order of the runs.
keysOfRuns(n) == [i \in 1..n |-> getRunKey("s1", RunIdOf(i))]

\* A behaviour starts with a new middleware, or with one whose cache is one
\* key short of full or full.
ServedRuns == {0, maxRunKeys - 1, maxRunKeys}

\* arg names the cache the runs of a behaviour go through (calls answered by
\* transformParams alone, or by wrapGenerate alone) and counts the run ids
\* handed out so far.
RunsThrough ==
    {[cache |-> c, issued |-> n] :
        c \in {"promptRunsSeen", "generatedRunsSeen"}, n \in ServedRuns}

RunKeysInit ==
    /\ cfg = NewMemoryLayer(BaseOptions)
    /\ arg \in RunsThrough
    /\ mw = [DefaultMiddleware EXCEPT ![arg.cache] = keysOfRuns(arg.issued)]
    /\ sessions = [s \in SessionIds |-> <<>>]
    /\ stats = [s \in SessionIds |-> DefaultStats]
    /\ events = [s \in SessionIds |-> <<>>]
    /\ call = IdleCall
    /\ peer = IdleCall
    /\ appendLog = <<>>
    /\ tx = NoTransaction
    /\ eventRows = <<>>
    /\ ncalls = 0
    /\ ret = NoRet

\* The keys a cache is marked with: the key of the next run, and the oldest
\* and the newest key it holds.
keysToMark(set, issued) ==
    {getRunKey("s1", RunIdOf(issued + 1))}
    \cup (IF set = <<>> THEN {} ELSE {Head(set), set[Len(set)]})

\* markProcessedRun(promptRunsSeen, runKey) of a transformParams.
MarkPromptRun ==
    /\ arg.cache = "promptRunsSeen"
    /\ arg.issued < MaxRuns
    /\ \E key \in keysToMark(mw.promptRunsSeen, arg.issued) :
         /\ mw' = [mw EXCEPT !.promptRunsSeen = markProcessedRun(@, key)]
         /\ arg' = IF InSeq(key, mw.promptRunsSeen) THEN arg
                   ELSE [arg EXCEPT !.issued = @ + 1]
    /\ UNCHANGED <<cfg, sessions, stats, events, call, peer, appendLog, tx,
                   eventRows, ncalls, ret>>

\* markProcessedRun(generatedRunsSeen, runKey) of a wrapGenerate.
MarkGeneratedRun ==
    /\ arg.cache = "generatedRunsSeen"
    /\ arg.issued < MaxRuns
    /\ \E key \in keysToMark(mw.generatedRunsSeen, arg.issued) :
         /\ mw' = [mw EXCEPT !.generatedRunsSeen = markProcessedRun(@, key)]
         /\ arg' = IF InSeq(key, mw.generatedRunsSeen) THEN arg
                   ELSE [arg EXCEPT !.issued = @ + 1]
    /\ UNCHANGED <<cfg, sessions, stats, events, call, peer, appendLog, tx,
                   eventRows, ncalls, ret>>

RunKeysNext == MarkPromptRun \/ MarkGeneratedRun

RunKeysSpec == RunKeysInit /\ [][RunKeysNext]_vars

\* What inserting a key that is not in the cache gives: the key at the end,
\* and the oldest key gone when the cache was full.
insertedInto(old, new) ==
    /\ new # <<>>
    /\ ~InSeq(new[Len(new)], old)
    /\ new = IF Len(old) < maxRunKeys
             THEN Append(old, new[Len(new)])
             ELSE Append(Tail(old), new[Len(new)])

\* Marking a key the cache holds, the oldest or the newest, changes nothing.
markingPresentKeyChangesNothing(set) ==
    set # <<>> =>
        /\ markSeen(set, Head(set)) = set
        /\ markSeen(set, set[Len(set)]) = set

\* C34: neither run-dedup cache ever holds more than maxRunKeys (5000) keys
\* after an insertion; a step that changes a cache inserts one key that was
\* not in it, at the end, and drops the oldest-inserted key when the cache was
\* full; marking a key that is present leaves the cache as it is, the order
\* of insertion (the age of the key) included.
RunCachesBoundedOldestEvicted ==
    /\ [](/\ Len(mw.promptRunsSeen) <= maxRunKeys
          /\ Len(mw.generatedRunsSeen) <= maxRunKeys
          /\ markingPresentKeyChangesNothing(mw.promptRunsSeen)
          /\ markingPresentKeyChangesNothing(mw.generatedRunsSeen))
    /\ [][/\ mw'.promptRunsSeen # mw.promptRunsSeen =>
                insertedInto(mw.promptRunsSeen, mw'.promptRunsSeen)
          /\ mw'.generatedRunsSeen # mw.generatedRunsSeen =>
                insertedInto(mw.generatedRunsSeen, mw'.generatedRunsSeen)]_vars

\* A full cache has taken one more key and has evicted its first key.
FullCacheAfterEviction ==
    /\ Len(mw.generatedRunsSeen) = maxRunKeys
    /\ Head(mw.generatedRunsSeen) = getRunKey("s1", RunIdOf(2))
    /\ mw.generatedRunsSeen[maxRunKeys] = getRunKey("s1", RunIdOf(maxRunKeys + 1))

----------------------------------------------------------------------------
(* The order of the memory operations of a middleware call, under MwSpec *)

\* Every event of evs that isEarlier holds of comes before every event that
\* isLater holds of.
eventsInOrder(evs, isEarlier(_), isLater(_)) ==
    \A i, j \in 1..Len(evs) : (isEarlier(evs[i]) /\ isLater(evs[j])) => i < j

isAppendEvent(e) == e.type \in {"message_appended", "messages_appended"}

isCompactionEventOf(e, mode) ==
    /\ e.type \in {"compaction_started", "compaction_skipped", "compaction_applied"}
    /\ e.payload.mode = mode

\* The call has ended, a transformParams or a wrapGenerate that met no
\* memory error.
middlewareCallEnded(op) == call.pc = "idle" /\ call.op = op /\ ~call.threw

passCommittedInCall ==
    \E i \in 1..Len(eventsOfCall) : eventsOfCall[i].type = "compaction_applied"

\* Every message of the list is a message of the prompt.
allInPrompt(messages, prompt) ==
    \A i \in 1..Len(messages) : InSeq(messages[i], prompt)

----------------------------------------------------------------------------
(* What a committed pass does with each message of its history, under Spec *)

\* C36: a committed pass discards no message silently: every message of the
\* history the pass started from is in the rebuilt history, or is in the
\* slice handed to the summarizer; this includes every message of the leading
\* system/developer run of that history.
NoMessageSilentlyDiscarded ==
    call.lastPass.outcome = "applied" =>
        \A i \in 1..Len(call.lastPass.history) :
            \/ InSeq(call.lastPass.history[i], call.lastPass.nextHistory)
            \/ InSeq(call.lastPass.history[i], call.lastPass.plan.summarizeSlice)

\* C37: the captured canonical context never holds a checkpoint: in every
\* state, for every session, no message of stats.canonicalContext is a summary
\* message (a system message whose content starts with the checkpoint prefix).
CanonicalContextHoldsNoCheckpoint ==
    \A sid \in SessionIds :
        \A i \in 1..Len(stats[sid].canonicalContext) :
            ~isSummaryMessage(stats[sid].canonicalContext[i])

----------------------------------------------------------------------------
(* The events of one compaction call, checked under Spec *)

\* C38: in a call that no summarizer failure ended, every compaction_started
\* event is followed at once, within the call, by a compaction_applied or a
\* compaction_skipped event; and in every state each compaction_applied event
\* of the call has a compaction_started event of the call before it, with
\* nothing but compaction_applied events between the two.
StartedIsFollowedAppliedIsPreceded ==
    call.op # "none" =>
        /\ \A j \in 1..Len(eventsOfCall) :
               eventsOfCall[j].type = "compaction_applied" =>
                   \E i \in 1..(j - 1) :
                       /\ eventsOfCall[i].type = "compaction_started"
                       /\ \A k \in (i + 1)..(j - 1) :
                              eventsOfCall[k].type = "compaction_applied"
        /\ (call.pc = "idle" /\ ~call.threw) =>
               \A i \in 1..Len(eventsOfCall) :
                   eventsOfCall[i].type = "compaction_started" =>
                       /\ i < Len(eventsOfCall)
                       /\ eventsOfCall[i + 1].type \in {"compaction_applied",
                                                        "compaction_skipped"}
        /\ (call.pc = "summarizing" /\ call.passes = 0) =>
               lastEvent(call.sessionId).type = "compaction_started"

\* A call has ended with compaction_started, compaction_applied and a skip of
\* the next pass as its last three events.
StartedAppliedSkippedRecorded ==
    /\ call.op \in {"addMessage", "addMessages", "compactNow"}
    /\ call.pc = "idle"
    /\ ~call.threw
    /\ Len(eventsOfCall) >= 3
    /\ eventsOfCall[Len(eventsOfCall) - 2].type = "compaction_started"
    /\ eventsOfCall[Len(eventsOfCall) - 1].type = "compaction_applied"
    /\ eventsOfCall[Len(eventsOfCall)].type = "compaction_skipped"

----------------------------------------------------------------------------
(* A second caller appends to the session of a call that is suspended at   *)
(* the summarizer.  call is the frame of the first caller, peer the frame   *)
(* of the second; both work on the same session of the same MemoryLayer.    *)

\* The message of the second caller, unlike every message of the first.
lateMessage == PartsMessage("user", <<TextPart(<<"late">>)>>)

CommitPeer(R) ==
    \E Q \in {R} :
        /\ sessions' = Q.M.sessions
        /\ stats' = Q.M.stats
        /\ events' = Q.M.events
        /\ peer' = Q.K
        /\ UNCHANGED <<cfg, mw, call, appendLog, tx, eventRows, arg, ret>>

\* addMessages of the second caller, entered while the first caller's pass
\* awaits the summarizer.
PeerAddMessages(sid) ==
    /\ call.pc = "summarizing"
    /\ call.sessionId = sid
    /\ peer.pc = "idle"
    /\ ncalls < MaxCalls
    /\ \E R \in {addMessages(Mem, NewCall("addMessages", sid, <<lateMessage>>),
                             <<lateMessage>>)} :
           CommitPeer(resume(R.M, R.K, mw))
    /\ ncalls' = ncalls + 1

PeerSummarizerReturns ==
    /\ peer.pc = "summarizing"
    /\ \E summary \in Summaries :
         \E R \in {compactAfterSummary(Mem, peer, summary)} :
             CommitPeer(resume(R.M, R.K, mw))
    /\ UNCHANGED ncalls

PeerSummarizerFails ==
    /\ peer.pc = "summarizing"
    /\ \E R \in {compactAfterFailure(Mem, peer)} :
           CommitPeer(resume(R.M, R.K, mw))
    /\ UNCHANGED ncalls

ConcurrentNext ==
    \/ \E sid \in SessionIds :
         \/ AddMessages(sid)
         \/ CompactNow(sid)
         \/ PeerAddMessages(sid)
    \/ SummarizerReturns
    \/ SummarizerFails
    \/ PeerSummarizerReturns
    \/ PeerSummarizerFails

ConcurrentSpec == Init /\ [][ConcurrentNext]_vars

\* C39: a message appended to the session while a pass of the first caller
\* awaited the summarizer (it is stored, and it is not in the history the pass
\* was planned from) is still in the stored log when that pass has committed.
AppendDuringPassSurvivesCommit ==
    [][(/\ call.pc = "summarizing"
        /\ call'.passes = call.passes + 1
        /\ call'.lastPass.outcome = "applied"
        /\ InSeq(lateMessage, sessions[call.sessionId])
        /\ ~InSeq(lateMessage, call.history)) =>
            InSeq(lateMessage, sessions'[call.sessionId])]_vars

----------------------------------------------------------------------------
(* A conversation, clearSession, and a new conversation on the same session *)

\* The first conversation and the one started after the clear.
ConversationBatches ==
    {<<sysA, usrL, astL, usrL>>, <<devB, usrL, astL>>, <<usrL, astL>>}

\* One call more than MaxCalls: a conversation, its clear, a new conversation.
CanCallAgain == call.pc = "idle" /\ ncalls < MaxCalls + 1

ConversationAddMessages(sid) ==
    /\ CanCallAgain
    /\ \E messages \in ConversationBatches :
         \E R \in {addMessages(Mem, NewCall("addMessages", sid, messages), messages)} :
             Called(resume(R.M, R.K, mw))

ConversationClearSession(sid) ==
    /\ CanCallAgain
    /\ sessions[sid] # <<>>
    /\ \E R \in {clearSession(Mem, NewCall("clearSession", sid, <<>>))} :
           Called(resume(R.M, R.K, mw))

ClearNext ==
    \/ \E sid \in SessionIds :
         \/ ConversationAddMessages(sid)
         \/ ConversationClearSession(sid)
    \/ SummarizerReturns
    \/ SummarizerFails

ClearSpec == Init /\ [][ClearNext]_vars

\* The call in progress is the first append after a clearSession: it found
\* the log empty and session_cleared as the last event.
firstAppendAfterClear(K) ==
    /\ K.op = "addMessages"
    /\ K.log0 = <<>>
    /\ K.ev0 > 0
    /\ events[K.sessionId][K.ev0].type = "session_cleared"

\* C40: after clearSession the session starts fresh: the first append of the
\* new conversation, when its log starts with system/developer messages,
\* leaves those messages as the canonical context of the session, and a pass
\* committed on the new conversation has them, not the instruction messages
\* of the cleared conversation, as its head.
ClearedSessionStartsFresh ==
    [][/\ (/\ ncalls' = ncalls + 1
           /\ call'.op = "addMessages"
           /\ sessions[call'.sessionId] = <<>>
           /\ Len(events[call'.sessionId]) > 0
           /\ lastEvent(call'.sessionId).type = "session_cleared"
           /\ leadingCanonicalContext(call'.messages) # <<>>) =>
              stats'[call'.sessionId].canonicalContext =
                  leadingCanonicalContext(call'.messages)
       /\ (/\ call.pc = "summarizing"
           /\ firstAppendAfterClear(call)
           /\ call.passes = 0
           /\ call'.lastPass.outcome = "applied") =>
              call'.lastPass.plan.head = leadingCanonicalContext(call.messages)]_vars

====
